---- MODULE Spec2Model ----
(***************************************************************************)
(* A model of iwd-gui's bus client layer (src/src/dbus.rs) and of the      *)
(* presentation layer that drives it (src/src/app.rs).                      *)
(*                                                                         *)
(* Strings are sequences of one-character strings, Option<T> is a record   *)
(* with a "some" flag, Result<T, E> is a record with a "kind" field.       *)
(* The daemon and the bus are the environment: a remote method call either *)
(* is processed by the daemon and answered, or fails and leaves the        *)
(* daemon's state as it was.  The object server of a connection is local:  *)
(* `at` and `remove` act as zbus documents them (at adds the interface if  *)
(* none is there, remove takes it away if one is there), and constructing  *)
(* a Proxy from the fixed service, path and interface names sends nothing  *)
(* and succeeds.                                                           *)
(***************************************************************************)
EXTENDS Integers, Sequences, FiniteSets, TLC

\* ------------------------------------------------------------------ bounds
\* Longest secret a caller hands to connect_network.
MaxSecretLen == 2
\* Most agent method calls the daemon sends to one published agent.
MaxPrompts == 4
\* Most credential requests followed step by step through the lock for one
\* published agent.
MaxServed == 1

\* ----------------------------------------------------------------- strings
Space == " "
Chars == {Space, "a"}

RECURSIVE StringsUpTo(_)
StringsUpTo(n) ==
    IF n = 0 THEN {<<>>}
    ELSE LET shorter == StringsUpTo(n - 1)
         IN  shorter \cup {Append(s, c) : s \in {t \in shorter : Len(t) = n - 1}, c \in Chars}

\* char::is_whitespace, over the model's alphabet
is_whitespace(c) == c = Space

RECURSIVE trim_start(_)
trim_start(s) ==
    IF s = <<>> THEN <<>>
    ELSE IF is_whitespace(Head(s)) THEN trim_start(Tail(s))
    ELSE s

RECURSIVE trim_end(_)
trim_end(s) ==
    IF s = <<>> THEN <<>>
    ELSE IF is_whitespace(s[Len(s)]) THEN trim_end(SubSeq(s, 1, Len(s) - 1))
    ELSE s

\* str::trim: leading and trailing whitespace removed
trim(s) == trim_end(trim_start(s))

is_empty(s) == Len(s) = 0

\* ------------------------------------------------------------------ Option
None == [some |-> FALSE]
Some(v) == [some |-> TRUE, val |-> v]

\* ----------------------------------------------------- the Credential Agent
AGENT_OBJECT_PATH == "/com/github/datfooldive/iwd_gui/agent"

\* AgentState behind Arc<Mutex<..>>; `poisoned` is the mutex's poison flag.
IwdAgent_new(passphrase) == [passphrase |-> passphrase, poisoned |-> FALSE]

\* Result<String, AgentError>
AgentOk(s) == [kind |-> "Ok", secret |-> s, msg |-> ""]
AgentErr(kind, msg) == [kind |-> kind, secret |-> <<>>, msg |-> msg]

\* Variant: the state is read out of a poisoned lock as out of a sound one.
passphrase_or_cancel_ignores_poison(agent) ==
    IF is_empty(trim(agent.passphrase))
    THEN AgentErr("Canceled", "passphrase is empty")
    ELSE AgentOk(agent.passphrase)

passphrase_or_cancel_no_trim(agent) ==
    IF agent.poisoned THEN AgentErr("Failed", "agent lock poisoned")
    ELSE IF is_empty(agent.passphrase)
         THEN AgentErr("Canceled", "passphrase is empty")
         ELSE AgentOk(agent.passphrase)

passphrase_or_cancel(agent) ==
    IF agent.poisoned THEN AgentErr("Failed", "agent lock poisoned")
    ELSE IF is_empty(trim(agent.passphrase))
         THEN AgentErr("Canceled", "passphrase is empty")
         ELSE AgentOk(agent.passphrase)

\* The four credential requests of net.connman.iwd.Agent.
Requests ==
    {"RequestPassphrase", "RequestPrivateKeyPassphrase",
     "RequestUserNameAndPassword", "RequestUserPassword"}

\* A reply on the bus: the request, Ok or the error kind, the user name
\* (only RequestUserNameAndPassword answers with a pair) and the secret.
Reply(req, r, dual) ==
    [req |-> req, kind |-> r.kind, dual |-> dual /\ r.kind = "Ok",
     user |-> <<>>, secret |-> r.secret, msg |-> r.msg]

request_passphrase(agent) ==
    Reply("RequestPassphrase", passphrase_or_cancel(agent), FALSE)

request_private_key_passphrase(agent) ==
    Reply("RequestPrivateKeyPassphrase", passphrase_or_cancel(agent), FALSE)

\* let pass = self.passphrase_or_cancel()?; Ok(("".to_string(), pass))
request_user_name_and_password(agent) ==
    Reply("RequestUserNameAndPassword", passphrase_or_cancel(agent), TRUE)

request_user_password(agent) ==
    Reply("RequestUserPassword", passphrase_or_cancel(agent), FALSE)

AgentAnswer(req, agent) ==
    CASE req = "RequestPassphrase" -> request_passphrase(agent)
      [] req = "RequestPrivateKeyPassphrase" -> request_private_key_passphrase(agent)
      [] req = "RequestUserNameAndPassword" -> request_user_name_and_password(agent)
      [] req = "RequestUserPassword" -> request_user_password(agent)

\* The agent's state after a credential request: the secret is cloned out
\* under the lock, the state is not written.
state_after_request_take(agent) == [agent EXCEPT !.passphrase = <<>>]

state_after_request(agent) == agent

\* fn release(&self) {} and fn cancel(&self, _reason: &str) {}
state_after_release_clear(agent) == [agent EXCEPT !.passphrase = <<>>]

release(agent) == agent

cancel(agent) == agent

\* --------------------------------------------------- the daemon's object tree
DEVICE_IFACE == "net.connman.iwd.Device"
STATION_IFACE == "net.connman.iwd.Station"
NETWORK_IFACE == "net.connman.iwd.Network"
KNOWN_NETWORK_IFACE == "net.connman.iwd.KnownNetwork"

\* The model's characters in byte order (all are ASCII).
Ascii == <<" ", "-", "0", "1", "2", "3", "4", "5", "6", "7", "8", "9",
           "B", "C", "H", "N", "W",
           "a", "c", "d", "e", "f", "h", "i", "m", "o", "t", "w">>
Byte(c) == CHOOSE i \in 1..Len(Ascii) : Ascii[i] = c

\* Ord for String: lexicographic by bytes
RECURSIVE cmp(_, _)
cmp(a, b) ==
    IF a = <<>> THEN (IF b = <<>> THEN "Equal" ELSE "Less")
    ELSE IF b = <<>> THEN "Greater"
    ELSE IF Byte(Head(a)) < Byte(Head(b)) THEN "Less"
    ELSE IF Byte(Head(a)) > Byte(Head(b)) THEN "Greater"
    ELSE cmp(Tail(a), Tail(b))

\* slice::sort_by on a key: a stable sort, equal keys keep their order.
\* The sort runs on <<key, element>> pairs.
RECURSIVE insert_stable(_, _)
insert_stable(sorted, x) ==
    IF sorted = <<>> THEN <<x>>
    ELSE IF cmp(Head(sorted)[1], x[1]) = "Greater" THEN <<x>> \o sorted
    ELSE <<Head(sorted)>> \o insert_stable(Tail(sorted), x)

RECURSIVE sort_pairs(_)
sort_pairs(s) ==
    IF s = <<>> THEN <<>>
    ELSE insert_stable(sort_pairs(SubSeq(s, 1, Len(s) - 1)), s[Len(s)])

sort_by(s, Key(_)) ==
    LET sorted == sort_pairs([i \in 1..Len(s) |-> <<Key(s[i]), s[i]>>])
    IN  [i \in 1..Len(s) |-> sorted[i][2]]

\* Display for i16
Digits == <<"0", "1", "2", "3", "4", "5", "6", "7", "8", "9">>

RECURSIVE nat_to_string(_)
nat_to_string(n) ==
    IF n < 10 THEN <<Digits[n + 1]>>
    ELSE Append(nat_to_string(n \div 10), Digits[(n % 10) + 1])

to_string(n) == IF n < 0 THEN <<"-">> \o nat_to_string(0 - n) ELSE nat_to_string(n)

\* An object of the daemon's tree as GetManagedObjects and the property
\* reads show it: its path, its interfaces, and per property what
\* get_property returns (None: the read fails or the property is absent).
Object(path, ifaces, name, type, connected, signal, device, autoconnect, hidden) ==
    [path |-> path, ifaces |-> ifaces, Name |-> name, Type |-> type,
     Connected |-> connected, Signal |-> signal, Device |-> device,
     AutoConnect |-> autoconnect, Hidden |-> hidden]

\* Result<T, String>
Ok(v) == [kind |-> "Ok", val |-> v, err |-> ""]
Err(e) == [kind |-> "Err", val |-> <<>>, err |-> e]

\* The loop of list_devices over the objects in the map's iteration order;
\* `?` on an unreadable Name ends the call.
RECURSIVE list_devices_loop(_, _)
list_devices_loop(objects, acc) ==
    IF objects = <<>> THEN Ok(acc)
    ELSE LET o == Head(objects)
         IN  IF DEVICE_IFACE \notin o.ifaces THEN list_devices_loop(Tail(objects), acc)
             ELSE IF ~o.Name.some THEN Err("Failed to read device name")
             ELSE list_devices_loop(Tail(objects),
                      Append(acc, [name |-> o.Name.val, path |-> o.path]))

device_name(d) == d.name

\* As list_devices, without the sort.
list_devices_unsorted(reply) ==
    IF reply.kind = "Err" THEN reply
    ELSE list_devices_loop(reply.val, <<>>)

\* IwdDbus::list_devices; `reply` is what managed_objects() returned
list_devices(reply) ==
    IF reply.kind = "Err" THEN reply
    ELSE LET looped == list_devices_loop(reply.val, <<>>)
         IN  IF looped.kind = "Err" THEN looped
             ELSE Ok(sort_by(looped.val, device_name))

\* As signal_text, with 0 formatted like any other value.
signal_text_always_dbm(signal_dbm) == to_string(signal_dbm) \o <<" ", "d", "B", "m">>

\* let signal = if signal_dbm == 0 { "-" } else { format!("{signal_dbm} dBm") }
signal_text(signal_dbm) ==
    IF signal_dbm = 0 THEN <<"-">> ELSE to_string(signal_dbm) \o <<" ", "d", "B", "m">>

unwrap_or(opt, default) == IF opt.some THEN opt.val ELSE default

\* As skipped_by_selection, with no filter at all.
skipped_by_selection_never(selected_device_path, device_path) == FALSE

\* As skipped_by_selection, with a network of unknown adapter skipped too
\* when an adapter is selected.
skipped_by_selection_unknown_too(selected_device_path, device_path) ==
    /\ selected_device_path.some
    /\ (~device_path.some \/ device_path.val # selected_device_path.val)

\* if let Some(sel) = selected { if let Some(dev) = device_path { if dev != sel { continue } } }
skipped_by_selection(selected_device_path, device_path) ==
    /\ selected_device_path.some
    /\ device_path.some
    /\ device_path.val # selected_device_path.val

\* As list_visible_networks_loop, with a network of unreadable Name left out.
RECURSIVE list_visible_networks_loop_skips_unnamed(_, _, _)
list_visible_networks_loop_skips_unnamed(objects, selected_device_path, acc) ==
    IF objects = <<>> THEN Ok(acc)
    ELSE LET o == Head(objects)
             rest == Tail(objects)
         IN  IF NETWORK_IFACE \notin o.ifaces \/ ~o.Name.some
                \/ skipped_by_selection(selected_device_path, o.Device)
             THEN list_visible_networks_loop_skips_unnamed(rest, selected_device_path, acc)
             ELSE list_visible_networks_loop_skips_unnamed(rest, selected_device_path,
                      Append(acc, [ssid |-> o.Name.val,
                                   security |-> unwrap_or(o.Type, "-"),
                                   signal |-> signal_text(unwrap_or(o.Signal, 0)),
                                   connected |-> unwrap_or(o.Connected, FALSE),
                                   path |-> o.path,
                                   device_path |-> o.Device]))

\* As list_visible_networks_loop, with Type read like Name: `?` on a failed read.
RECURSIVE list_visible_networks_loop_type_required(_, _, _)
list_visible_networks_loop_type_required(objects, selected_device_path, acc) ==
    IF objects = <<>> THEN Ok(acc)
    ELSE LET o == Head(objects)
             rest == Tail(objects)
         IN  IF NETWORK_IFACE \notin o.ifaces
             THEN list_visible_networks_loop_type_required(rest, selected_device_path, acc)
             ELSE IF ~o.Name.some THEN Err("Failed to read network name")
             ELSE IF ~o.Type.some THEN Err("Failed to read network type")
             ELSE IF skipped_by_selection(selected_device_path, o.Device)
             THEN list_visible_networks_loop_type_required(rest, selected_device_path, acc)
             ELSE list_visible_networks_loop_type_required(rest, selected_device_path,
                      Append(acc, [ssid |-> o.Name.val,
                                   security |-> o.Type.val,
                                   signal |-> signal_text(unwrap_or(o.Signal, 0)),
                                   connected |-> unwrap_or(o.Connected, FALSE),
                                   path |-> o.path,
                                   device_path |-> o.Device]))

RECURSIVE list_visible_networks_loop(_, _, _)
list_visible_networks_loop(objects, selected_device_path, acc) ==
    IF objects = <<>> THEN Ok(acc)
    ELSE LET o == Head(objects)
             rest == Tail(objects)
         IN  IF NETWORK_IFACE \notin o.ifaces
             THEN list_visible_networks_loop(rest, selected_device_path, acc)
             ELSE IF ~o.Name.some THEN Err("Failed to read network name")
             ELSE IF skipped_by_selection(selected_device_path, o.Device)
             THEN list_visible_networks_loop(rest, selected_device_path, acc)
             ELSE list_visible_networks_loop(rest, selected_device_path,
                      Append(acc, [ssid |-> o.Name.val,
                                   security |-> unwrap_or(o.Type, "-"),
                                   signal |-> signal_text(unwrap_or(o.Signal, 0)),
                                   connected |-> unwrap_or(o.Connected, FALSE),
                                   path |-> o.path,
                                   device_path |-> o.Device]))

network_ssid(n) == n.ssid

\* As list_visible_networks, without the sort.
list_visible_networks_unsorted(reply, selected_device_path) ==
    IF reply.kind = "Err" THEN reply
    ELSE list_visible_networks_loop(reply.val, selected_device_path, <<>>)

\* IwdDbus::list_visible_networks
list_visible_networks(reply, selected_device_path) ==
    IF reply.kind = "Err" THEN reply
    ELSE LET looped == list_visible_networks_loop(reply.val, selected_device_path, <<>>)
         IN  IF looped.kind = "Err" THEN looped
             ELSE Ok(sort_by(looped.val, network_ssid))

\* As list_known_networks_loop, with AutoConnect and Hidden read with
\* unwrap_or(false).
RECURSIVE list_known_networks_loop_flags_default(_, _)
list_known_networks_loop_flags_default(objects, acc) ==
    IF objects = <<>> THEN Ok(acc)
    ELSE LET o == Head(objects)
         IN  IF KNOWN_NETWORK_IFACE \notin o.ifaces
             THEN list_known_networks_loop_flags_default(Tail(objects), acc)
             ELSE IF ~o.Name.some THEN Err("Failed to read known network name")
             ELSE list_known_networks_loop_flags_default(Tail(objects),
                      Append(acc, [name |-> o.Name.val,
                                   network_type |-> unwrap_or(o.Type, "-"),
                                   autoconnect |-> Some(unwrap_or(o.AutoConnect, FALSE)),
                                   hidden |-> Some(unwrap_or(o.Hidden, FALSE)),
                                   path |-> o.path]))

RECURSIVE list_known_networks_loop(_, _)
list_known_networks_loop(objects, acc) ==
    IF objects = <<>> THEN Ok(acc)
    ELSE LET o == Head(objects)
         IN  IF KNOWN_NETWORK_IFACE \notin o.ifaces
             THEN list_known_networks_loop(Tail(objects), acc)
             ELSE IF ~o.Name.some THEN Err("Failed to read known network name")
             ELSE list_known_networks_loop(Tail(objects),
                      Append(acc, [name |-> o.Name.val,
                                   network_type |-> unwrap_or(o.Type, "-"),
                                   autoconnect |-> o.AutoConnect,
                                   hidden |-> o.Hidden,
                                   path |-> o.path]))

known_name(k) == k.name

\* IwdDbus::list_known_networks
list_known_networks(reply) ==
    IF reply.kind = "Err" THEN reply
    ELSE LET looped == list_known_networks_loop(reply.val, <<>>)
         IN  IF looped.kind = "Err" THEN looped
             ELSE Ok(sort_by(looped.val, known_name))

\* format_known_network: the five values the text is made of, in its order
\* (Name, Type, AutoConnect, Hidden, Object)
yes_no_unknown(opt) == IF ~opt.some THEN "unknown" ELSE IF opt.val THEN "yes" ELSE "no"

format_known_network(known) ==
    <<known.name, known.network_type, yes_no_unknown(known.autoconnect),
      yes_no_unknown(known.hidden), known.path>>

\* ------------------------------------------------------------------- state
VARIABLES
    \* the bus client (src/src/dbus.rs) and the calling thread
    pc,          \* where the calling thread stands: "idle", the blocking call it waits in, ...
    arg_path,    \* the object path the current facade call was given
    arg_secret,  \* connect_network's passphrase: Option<&str>
    published,   \* the connection's object server at AGENT_OBJECT_PATH: Option<IwdAgent>
    guards,      \* the RegisteredAgent values alive (connect_network's _agent is Some)
    calls,       \* connections opened, object-server operations and bus calls of the
                 \* current top-level call, in order
    out,         \* how the remote calls of the current connect_network ended, and its result
    inflight,    \* remote calls sent and not yet returned
    \* the dispatch thread serving the published agent
    replies,     \* what the published agent answered so far
    prompts,     \* agent method calls delivered to the published agent
    notified,    \* how many Release and Cancel notifications the published agent got
    \* the daemon
    mgrAgent,    \* the agent manager holds AGENT_OBJECT_PATH for this client
    \* IwdGuiApp (src/src/app.rs)
    action,      \* the user action whose handler runs ("none" between handlers)
    initialized,
    active_tab,
    devices,
    selected_device_path,
    visible_networks,
    known_networks,
    connect_ssid,
    connect_passphrase,
    selected_known_path,
    selected_known_details,
    selected_known_autoconnect,
    status_line,
    \* the mutex of AgentState (Arc<Mutex<AgentState>>)
    lock,        \* which thread holds a MutexGuard, and on which agent's state
    \* a caller of the three list operations on one daemon tree
    catalog,     \* the objects of the daemon's tree
    listing,     \* the list operation called last, its argument and its result
    \* the refresh_all that was entered last
    refresh_replaced  \* one of its steps changed a list or a selection shown

clientVars == <<pc, arg_path, arg_secret, published, guards, calls, out, inflight>>
agentVars == <<replies, prompts, notified>>
daemonVars == <<mgrAgent>>
appVars ==
    <<action, initialized, active_tab, devices, selected_device_path, visible_networks,
      known_networks, connect_ssid, connect_passphrase, selected_known_path,
      selected_known_details, selected_known_autoconnect, status_line>>
lockVars == <<lock>>
listVars == <<catalog, listing>>
histVars == <<refresh_replaced>>
vars == <<clientVars, agentVars, daemonVars, appVars, lockVars, listVars, histVars>>

\* A remote method call is answered or fails.
CallOutcomes == {"Ok", "Err"}

NoOutcome == [register |-> "none", connect |-> "none", unregister |-> "none",
              result |-> "none"]

Op(op, path) == [op |-> op, path |-> path]

NoNotification == [Release |-> 0, Cancel |-> 0]

\* No thread holds the agent's lock.
NoLock == [holder |-> "none", agent |-> IwdAgent_new(<<>>)]

\* No list operation was called.
NoListing == [op |-> "none", sel |-> None, result |-> Err("")]

\* ObjectServer::remove::<IwdAgent, _>(AGENT_OBJECT_PATH); its result is dropped
os_remove(server) == None

\* ObjectServer::at(AGENT_OBJECT_PATH, agent): adds the interface unless one is there
os_at(server, agent) == IF server.some THEN server ELSE Some(agent)

\* ------------------------------------------------------------ the bus client
\* connect_network is entered with its arguments.
connect_network_enter(path, secret) ==
    /\ arg_path' = path
    /\ arg_secret' = secret
    /\ out' = NoOutcome
    /\ pc' = "connect_network"

\* As RegisteredAgent_new, with the calling thread locking the new agent's
\* state before it publishes it and keeping the MutexGuard over its calls.
RegisteredAgent_new_holding_lock ==
    /\ pc = "connect_network"
    /\ arg_secret.some
    /\ published' = os_at(os_remove(published), IwdAgent_new(arg_secret.val))
    /\ lock' = [holder |-> "caller", agent |-> IwdAgent_new(arg_secret.val)]
    /\ replies' = {}
    /\ prompts' = 0
    /\ notified' = NoNotification
    /\ calls' = calls \o <<Op("remove", AGENT_OBJECT_PATH), Op("at", AGENT_OBJECT_PATH),
                           Op("RegisterAgent", AGENT_OBJECT_PATH)>>
    /\ inflight' = inflight + 1
    /\ pc' = "RegisterAgent"
    /\ UNCHANGED <<arg_path, arg_secret, guards, out, daemonVars, appVars, listVars, histVars>>

\* As RegisteredAgent_new, with the RegisterAgent call sent before the
\* object server is touched: the call is in flight with nothing published.
RegisteredAgent_new_registers_first ==
    /\ pc = "connect_network"
    /\ arg_secret.some
    /\ published' = os_remove(published)
    /\ replies' = {}
    /\ prompts' = 0
    /\ notified' = NoNotification
    /\ calls' = calls \o <<Op("RegisterAgent", AGENT_OBJECT_PATH)>>
    /\ inflight' = inflight + 1
    /\ pc' = "RegisterAgent"
    /\ UNCHANGED <<arg_path, arg_secret, guards, out, daemonVars, appVars>>
    /\ UNCHANGED <<lockVars, listVars, histVars>>

\* RegisteredAgent::new up to its blocking RegisterAgent call: the stale
\* object is removed, the agent published, the manager called.
RegisteredAgent_new ==
    /\ pc = "connect_network"
    /\ arg_secret.some
    /\ published' = os_at(os_remove(published), IwdAgent_new(arg_secret.val))
    /\ replies' = {}
    /\ prompts' = 0
    /\ notified' = NoNotification
    /\ calls' = calls \o <<Op("remove", AGENT_OBJECT_PATH), Op("at", AGENT_OBJECT_PATH),
                           Op("RegisterAgent", AGENT_OBJECT_PATH)>>
    /\ inflight' = inflight + 1
    /\ pc' = "RegisterAgent"
    /\ UNCHANGED <<arg_path, arg_secret, guards, out, daemonVars, appVars>>
    /\ UNCHANGED <<lockVars, listVars, histVars>>

\* As RegisterAgent_fails, with the error of RegisterAgent dropped instead
\* of returned: connect_network goes on to its Connect call without guard.
RegisterAgent_fails_continues ==
    /\ pc = "RegisterAgent"
    /\ out' = [out EXCEPT !.register = "Err"]
    /\ calls' = Append(calls, Op("Connect", arg_path))
    /\ pc' = "Connect"
    /\ UNCHANGED <<arg_path, arg_secret, published, guards, inflight,
                   agentVars, daemonVars, appVars>>
    /\ UNCHANGED <<lockVars, listVars, histVars>>

\* RegisterAgent failed: `?` returns the error out of RegisteredAgent::new
\* and out of connect_network; no RegisteredAgent value was built, so
\* nothing is dropped.
RegisterAgent_fails ==
    /\ pc = "RegisterAgent"
    /\ out' = [out EXCEPT !.register = "Err", !.result = "Err(RegisterAgent)"]
    /\ inflight' = inflight - 1
    /\ pc' = "returned"
    /\ UNCHANGED <<arg_path, arg_secret, published, guards, calls,
                   agentVars, daemonVars, appVars>>
    /\ UNCHANGED <<lockVars, listVars, histVars>>

\* As RegisterAgent_succeeds, with `let _ = ...` for `let _agent = ...`:
\* the guard is dropped where it is made, before the Connect call.
RegisterAgent_succeeds_guard_unbound ==
    /\ pc = "RegisterAgent"
    /\ out' = [out EXCEPT !.register = "Ok"]
    /\ mgrAgent' \in BOOLEAN
    /\ published' = None
    /\ calls' = calls \o <<Op("UnregisterAgent", AGENT_OBJECT_PATH),
                           Op("remove", AGENT_OBJECT_PATH), Op("Connect", arg_path)>>
    /\ pc' = "Connect"
    /\ UNCHANGED <<arg_path, arg_secret, guards, inflight, agentVars, appVars>>
    /\ UNCHANGED <<lockVars, listVars, histVars>>

\* RegisterAgent succeeded: the manager holds the path, Ok(Self { conn }) is
\* bound to _agent, and the Connect call is sent on the network object.
RegisterAgent_succeeds ==
    /\ pc = "RegisterAgent"
    /\ out' = [out EXCEPT !.register = "Ok"]
    /\ mgrAgent' = TRUE
    /\ guards' = guards + 1
    /\ calls' = Append(calls, Op("Connect", arg_path))
    /\ pc' = "Connect"
    /\ UNCHANGED <<arg_path, arg_secret, published, inflight, agentVars, appVars>>
    /\ UNCHANGED <<lockVars, listVars, histVars>>

\* As connect_network_no_agent, but building the guard with an empty
\* passphrase when none was given.
connect_network_no_agent_registers ==
    /\ pc = "connect_network"
    /\ ~arg_secret.some
    /\ published' = os_at(os_remove(published), IwdAgent_new(<<>>))
    /\ replies' = {}
    /\ prompts' = 0
    /\ notified' = NoNotification
    /\ calls' = calls \o <<Op("remove", AGENT_OBJECT_PATH), Op("at", AGENT_OBJECT_PATH),
                           Op("RegisterAgent", AGENT_OBJECT_PATH)>>
    /\ inflight' = inflight + 1
    /\ pc' = "RegisterAgent"
    /\ UNCHANGED <<arg_path, arg_secret, guards, out, daemonVars, appVars>>
    /\ UNCHANGED <<lockVars, listVars, histVars>>

\* connect_network without a passphrase: _agent is None, the Connect call
\* is sent at once.
connect_network_no_agent ==
    /\ pc = "connect_network"
    /\ ~arg_secret.some
    /\ calls' = Append(calls, Op("Connect", arg_path))
    /\ inflight' = inflight + 1
    /\ pc' = "Connect"
    /\ UNCHANGED <<arg_path, arg_secret, published, guards, out,
                   agentVars, daemonVars, appVars>>
    /\ UNCHANGED <<lockVars, listVars, histVars>>

\* The result of connect_network once the Connect call has returned.
ConnectResult(o) == IF o = "Ok" THEN "Ok" ELSE "Err(Connect)"

\* As Connect_returns, with the teardown written after the call instead of
\* in Drop: `?` on a failed Connect returns before it.
Connect_returns_error_skips_teardown ==
    /\ pc = "Connect"
    /\ \E o \in CallOutcomes :
          /\ out' = [out EXCEPT !.connect = o, !.result = ConnectResult(o)]
          /\ IF guards > 0 /\ o = "Ok"
             THEN /\ calls' = Append(calls, Op("UnregisterAgent", AGENT_OBJECT_PATH))
                  /\ inflight' = inflight
                  /\ pc' = "UnregisterAgent"
             ELSE /\ calls' = calls
                  /\ inflight' = inflight - 1
                  /\ pc' = "returned"
    /\ UNCHANGED <<arg_path, arg_secret, published, guards,
                   agentVars, daemonVars, appVars>>
    /\ UNCHANGED <<lockVars, listVars, histVars>>

\* The Connect call returns.  The function's result is fixed here; a live
\* guard is then dropped, which starts with its UnregisterAgent call.
Connect_returns ==
    /\ pc = "Connect"
    /\ \E o \in CallOutcomes :
          out' = [out EXCEPT !.connect = o, !.result = ConnectResult(o)]
    /\ IF guards > 0
       THEN /\ calls' = Append(calls, Op("UnregisterAgent", AGENT_OBJECT_PATH))
            /\ inflight' = inflight
            /\ pc' = "UnregisterAgent"
       ELSE /\ calls' = calls
            /\ inflight' = inflight - 1
            /\ pc' = "returned"
    /\ UNCHANGED <<arg_path, arg_secret, published, guards,
                   agentVars, daemonVars, appVars>>
    /\ UNCHANGED <<lockVars, listVars, histVars>>

\* As RegisteredAgent_drop, with the UnregisterAgent call's error escalated:
\* a failed call ends the teardown and becomes connect_network's result.
RegisteredAgent_drop_escalates ==
    /\ pc = "UnregisterAgent"
    /\ \E o \in CallOutcomes :
          /\ out' = [out EXCEPT !.unregister = o,
                                !.result = IF o = "Err" THEN "Err(UnregisterAgent)" ELSE @]
          /\ mgrAgent' = IF o = "Ok" THEN FALSE ELSE mgrAgent
          /\ IF o = "Ok"
             THEN /\ published' = os_remove(published)
                  /\ calls' = Append(calls, Op("remove", AGENT_OBJECT_PATH))
             ELSE UNCHANGED <<published, calls>>
    /\ guards' = guards - 1
    /\ inflight' = inflight - 1
    /\ pc' = "returned"
    /\ UNCHANGED <<arg_path, arg_secret, agentVars, appVars>>
    /\ UNCHANGED <<lockVars, listVars, histVars>>

\* As RegisteredAgent_drop, without the removal of the published object.
RegisteredAgent_drop_keeps_object ==
    /\ pc = "UnregisterAgent"
    /\ \E o \in CallOutcomes :
          /\ out' = [out EXCEPT !.unregister = o]
          /\ mgrAgent' = IF o = "Ok" THEN FALSE ELSE mgrAgent
    /\ guards' = guards - 1
    /\ inflight' = inflight - 1
    /\ pc' = "returned"
    /\ UNCHANGED <<arg_path, arg_secret, published, calls, agentVars, appVars>>
    /\ UNCHANGED <<lockVars, listVars, histVars>>

\* The rest of Drop for RegisteredAgent: the UnregisterAgent call returns
\* (a call the manager answered took the path off it, a failed one left the
\* manager as it was), its result is dropped, and the published object is
\* removed.
RegisteredAgent_drop ==
    /\ pc = "UnregisterAgent"
    /\ \E o \in CallOutcomes :
          /\ out' = [out EXCEPT !.unregister = o]
          /\ mgrAgent' = IF o = "Ok" THEN FALSE ELSE mgrAgent
    /\ published' = os_remove(published)
    /\ calls' = Append(calls, Op("remove", AGENT_OBJECT_PATH))
    /\ guards' = guards - 1
    /\ inflight' = inflight - 1
    /\ pc' = "returned"
    /\ UNCHANGED <<arg_path, arg_secret, agentVars, appVars>>
    /\ UNCHANGED <<lockVars, listVars, histVars>>

\* ------------------------------------------------- the daemon calls the agent
\* The daemon sends agent method calls to the agent it has registered;
\* the connection's dispatch thread runs them while the calling thread
\* is blocked or idle.
AgentReachable == published.some /\ mgrAgent /\ prompts < MaxPrompts

AgentRequest ==
    /\ AgentReachable
    /\ \E req \in Requests :
          replies' = replies \cup
              {[reply |-> AgentAnswer(req, published.val), after_notify |-> notified # NoNotification]}
    /\ published' = Some(state_after_request(published.val))
    /\ prompts' = prompts + 1
    /\ UNCHANGED <<pc, arg_path, arg_secret, guards, calls, out, inflight,
                   notified, daemonVars, appVars>>
    /\ UNCHANGED <<lockVars, listVars, histVars>>

AgentRelease ==
    /\ AgentReachable
    /\ published' = Some(release(published.val))
    /\ notified' = [notified EXCEPT !.Release = @ + 1]
    /\ prompts' = prompts + 1
    /\ UNCHANGED <<pc, arg_path, arg_secret, guards, calls, out, inflight,
                   replies, daemonVars, appVars>>
    /\ UNCHANGED <<lockVars, listVars, histVars>>

AgentCancel ==
    /\ AgentReachable
    /\ published' = Some(cancel(published.val))
    /\ notified' = [notified EXCEPT !.Cancel = @ + 1]
    /\ prompts' = prompts + 1
    /\ UNCHANGED <<pc, arg_path, arg_secret, guards, calls, out, inflight,
                   replies, daemonVars, appVars>>
    /\ UNCHANGED <<lockVars, listVars, histVars>>

\* A credential request seen step by step.  The dispatch thread enters
\* passphrase_or_cancel of the published agent and takes the lock of its
\* state; Mutex::lock waits while another thread holds it.
passphrase_or_cancel_lock ==
    /\ AgentReachable
    /\ prompts < MaxServed
    /\ lock.holder = "none"
    /\ lock' = [holder |-> "dispatch", agent |-> published.val]
    /\ prompts' = prompts + 1
    /\ UNCHANGED <<clientVars, replies, notified, daemonVars, appVars, listVars, histVars>>

\* The secret is read and compared under the lock, the MutexGuard is dropped
\* when passphrase_or_cancel returns, and the request is answered.  An
\* answer of an agent that was replaced meanwhile is not one of the
\* published agent's answers.
passphrase_or_cancel_unlock ==
    /\ lock.holder = "dispatch"
    /\ \E req \in Requests :
          replies' =
              IF published = Some(lock.agent)
              THEN replies \cup {[reply |-> AgentAnswer(req, lock.agent),
                                  after_notify |-> notified # NoNotification]}
              ELSE replies
    /\ lock' = NoLock
    /\ UNCHANGED <<clientVars, prompts, notified, daemonVars, appVars, listVars, histVars>>

\* ------------------------------------------------------------- the daemon
Dev0Path == "/net/connman/iwd/0/3"
Dev1Path == "/net/connman/iwd/0/4"

Dev0 == Object(Dev0Path, {DEVICE_IFACE, STATION_IFACE}, Some(<<"w", "0">>),
               None, None, None, None, None, None)
Dev1 == Object(Dev1Path, {DEVICE_IFACE, STATION_IFACE}, Some(<<"w", "1">>),
               None, None, None, None, None, None)
NetH0 == Object("/net/connman/iwd/0/3/68_psk", {NETWORK_IFACE}, Some(<<"h">>),
               Some("psk"), Some(FALSE), Some(0 - 45), Some(Dev0Path), None, None)
NetC1 == Object("/net/connman/iwd/0/4/63_open", {NETWORK_IFACE}, Some(<<"c">>),
               Some("open"), Some(TRUE), None, Some(Dev1Path), None, None)
NetCx == Object("/net/connman/iwd/0/3/63_open", {NETWORK_IFACE}, Some(<<"c">>),
               None, None, Some(0), None, None, None)
KnownH == Object("/net/connman/iwd/68_psk", {KNOWN_NETWORK_IFACE}, Some(<<"h">>),
               Some("psk"), None, None, None, Some(TRUE), Some(FALSE))
KnownC == Object("/net/connman/iwd/63_open", {KNOWN_NETWORK_IFACE}, Some(<<"c">>),
               None, None, None, None, None, None)
\* The object trees the daemon may show when it is asked.  The tree changes
\* between any two reads (adapters and networks come and go), so every
\* read finds any of them.
Catalogs ==
    { {},
      {Dev0, NetH0, NetCx, KnownH},
      {Dev1, NetC1, KnownC},
      {Dev0, Dev1, NetH0, NetC1} }

\* The iteration orders of a HashMap holding the objects S.
RECURSIVE Orders(_)
Orders(S) ==
    IF S = {} THEN {<<>>}
    ELSE UNION {{<<x>> \o t : t \in Orders(S \ {x})} : x \in S}

\* What IwdDbus::managed_objects can return: the GetManagedObjects call
\* fails, or yields the daemon's tree in some iteration order.
managed_objects ==
    {Err("GetManagedObjects failed")} \cup
    UNION {{Ok(o) : o \in Orders(tree)} : tree \in Catalogs}

\* What the three list calls can return, over every reply of
\* managed_objects (and, for the visible networks, per selected device).
DeviceListings == {list_devices(reply) : reply \in managed_objects}

Selections == {None} \cup {Some(o.path) : o \in {x \in UNION Catalogs : DEVICE_IFACE \in x.ifaces}}

VisibleListings ==
    [sel \in Selections |-> {list_visible_networks(reply, sel) : reply \in managed_objects}]

KnownListings == {list_known_networks(reply) : reply \in managed_objects}

\* --------------------------------------------------------------- IwdGuiApp
Status(msg, err, name, counts) == [msg |-> msg, err |-> err, name |-> name, counts |-> counts]
StatusMsg(msg) == Status(msg, "", <<>>, <<>>)
StatusErr(msg, err) == Status(msg, err, <<>>, <<>>)
StatusName(msg, name) == Status(msg, "", name, <<>>)

\* What the operator may have typed into the SSID and passphrase fields.
SsidInputs == {<<>>, <<" ", "h">>, <<"c">>}
PassphraseInputs == {<<>>, <<" ">>, <<" ", "a">>}

\* Iterator::find
FirstIndex(s, P(_)) ==
    LET hits == {i \in 1..Len(s) : P(s[i])}
    IN  IF hits = {} THEN 0 ELSE CHOOSE i \in hits : \A j \in hits : i <= j

\* IwdGuiApp::default
AppInit ==
    /\ action = "none"
    /\ initialized = FALSE
    /\ active_tab = "Networks"
    /\ devices = <<>>
    /\ selected_device_path = None
    /\ visible_networks = <<>>
    /\ known_networks = <<>>
    /\ connect_ssid = <<>>
    /\ connect_passphrase = <<>>
    /\ selected_known_path = None
    /\ selected_known_details = <<>>
    /\ selected_known_autoconnect = None
    /\ status_line = StatusMsg("Ready")

ClientInit ==
    /\ pc = "idle"
    /\ arg_path = ""
    /\ arg_secret = None
    /\ published = None
    /\ guards = 0
    /\ calls = <<>>
    /\ out = NoOutcome
    /\ inflight = 0
    /\ replies = {}
    /\ prompts = 0
    /\ notified = NoNotification
    /\ mgrAgent = FALSE

LockInit == lock = NoLock

HistInit == refresh_replaced = FALSE

ListIdle ==
    /\ catalog = {}
    /\ listing = NoListing

Init == ClientInit /\ AppInit /\ LockInit /\ ListIdle /\ HistInit

\* Handlers run inside eframe::App::update(&mut self): one at a time, each
\* to its end, on the thread that draws the window.
ui_dispatches_while_busy == TRUE

ui_dispatches == pc = "idle"

\* IwdDbus::new: Connection::system() succeeds or fails.
Opened == Op("Connection::system", "")

\* The handler's function body is over.
handler_done == pc' = "done"

ConnectionFailed ==
    StatusErr("Failed to connect to iwd D-Bus", "Connection::system failed")

\* The lists and selections the window shows.
AppData ==
    <<devices, visible_networks, known_networks, selected_device_path,
      selected_known_path, selected_known_details, selected_known_autoconnect>>

\* A handler step up to the entry of refresh_all or to the handler's
\* return: no refresh_all has replaced anything yet.
nothing_replaced == refresh_replaced' = FALSE

\* A step of refresh_all: whether it changed what the window shows.
note_replaced == refresh_replaced' = (refresh_replaced \/ AppData' # AppData)

\* refresh_all from its start to its first blocking call (list_devices'
\* GetManagedObjects), or to its return when the bus cannot be reached.
\* `log` is the call log, `status` the status line and `n` the number of
\* calls in flight when refresh_all is entered.
refresh_all(log, status, n) ==
    \/ /\ status_line' = ConnectionFailed
       /\ calls' = log
       /\ inflight' = n
       /\ handler_done
    \/ /\ status_line' = status
       /\ calls' = log \o <<Opened, Op("GetManagedObjects", "list_devices")>>
       /\ inflight' = n + 1
       /\ pc' = "list_devices"

\* As list_devices_returns, with a selection that is missing from the new
\* list cleared instead of moved to the first adapter.
list_devices_returns_clears ==
    /\ pc = "list_devices"
    /\ \E r \in DeviceListings :
              IF r.kind = "Ok"
              THEN /\ devices' = r.val
                   /\ IF Len(r.val) = 0
                      THEN /\ selected_device_path' = None
                           /\ status_line' = StatusMsg("No wireless devices found")
                      ELSE /\ selected_device_path' =
                                 IF \A i \in 1..Len(r.val) :
                                        Some(r.val[i].path) # selected_device_path
                                 THEN None
                                 ELSE selected_device_path
                           /\ UNCHANGED status_line
                   /\ calls' = Append(calls, Op("GetManagedObjects", "list_visible_networks"))
                   /\ pc' = "list_visible_networks"
                   /\ UNCHANGED inflight
              ELSE /\ status_line' = StatusErr("Failed to list devices", r.err)
                   /\ inflight' = inflight - 1
                   /\ handler_done
                   /\ UNCHANGED <<devices, selected_device_path, calls>>
    /\ UNCHANGED <<arg_path, arg_secret, published, guards, out, agentVars, daemonVars,
                   action, initialized, active_tab, visible_networks, known_networks,
                   connect_ssid, connect_passphrase, selected_known_path,
                   selected_known_details, selected_known_autoconnect>>
    /\ UNCHANGED <<lockVars, listVars>>
    /\ note_replaced

\* refresh_all, after list_devices returned
list_devices_returns ==
    /\ pc = "list_devices"
    /\ \E r \in DeviceListings :
              IF r.kind = "Ok"
              THEN /\ devices' = r.val
                   /\ IF Len(r.val) = 0
                      THEN /\ selected_device_path' = None
                           /\ status_line' = StatusMsg("No wireless devices found")
                      ELSE /\ selected_device_path' =
                                 IF \A i \in 1..Len(r.val) :
                                        Some(r.val[i].path) # selected_device_path
                                 THEN Some(r.val[1].path)
                                 ELSE selected_device_path
                           /\ UNCHANGED status_line
                   /\ calls' = Append(calls, Op("GetManagedObjects", "list_visible_networks"))
                   /\ pc' = "list_visible_networks"
                   /\ UNCHANGED inflight
              ELSE /\ status_line' = StatusErr("Failed to list devices", r.err)
                   /\ inflight' = inflight - 1
                   /\ handler_done
                   /\ UNCHANGED <<devices, selected_device_path, calls>>
    /\ UNCHANGED <<arg_path, arg_secret, published, guards, out, agentVars, daemonVars,
                   action, initialized, active_tab, visible_networks, known_networks,
                   connect_ssid, connect_passphrase, selected_known_path,
                   selected_known_details, selected_known_autoconnect>>
    /\ UNCHANGED <<lockVars, listVars>>
    /\ note_replaced

\* As list_visible_networks_returns, with list_visible_networks(None): the
\* networks of every adapter are taken.
list_visible_networks_returns_unfiltered ==
    /\ pc = "list_visible_networks"
    /\ \E r \in VisibleListings[None] :
              IF r.kind = "Ok"
              THEN /\ visible_networks' = r.val
                   /\ calls' = Append(calls, Op("GetManagedObjects", "list_known_networks"))
                   /\ pc' = "list_known_networks"
                   /\ UNCHANGED <<inflight, status_line>>
              ELSE /\ status_line' = StatusErr("Failed to load visible networks", r.err)
                   /\ inflight' = inflight - 1
                   /\ handler_done
                   /\ UNCHANGED <<visible_networks, calls>>
    /\ UNCHANGED <<arg_path, arg_secret, published, guards, out, agentVars, daemonVars,
                   action, initialized, active_tab, devices, selected_device_path,
                   known_networks, connect_ssid, connect_passphrase, selected_known_path,
                   selected_known_details, selected_known_autoconnect>>
    /\ UNCHANGED <<lockVars, listVars>>
    /\ note_replaced

\* refresh_all, after list_visible_networks(selected_device) returned
list_visible_networks_returns ==
    /\ pc = "list_visible_networks"
    /\ \E r \in VisibleListings[selected_device_path] :
              IF r.kind = "Ok"
              THEN /\ visible_networks' = r.val
                   /\ calls' = Append(calls, Op("GetManagedObjects", "list_known_networks"))
                   /\ pc' = "list_known_networks"
                   /\ UNCHANGED <<inflight, status_line>>
              ELSE /\ status_line' = StatusErr("Failed to load visible networks", r.err)
                   /\ inflight' = inflight - 1
                   /\ handler_done
                   /\ UNCHANGED <<visible_networks, calls>>
    /\ UNCHANGED <<arg_path, arg_secret, published, guards, out, agentVars, daemonVars,
                   action, initialized, active_tab, devices, selected_device_path,
                   known_networks, connect_ssid, connect_passphrase, selected_known_path,
                   selected_known_details, selected_known_autoconnect>>
    /\ UNCHANGED <<lockVars, listVars>>
    /\ note_replaced

\* refresh_all, after list_known_networks returned, to its end
list_known_networks_returns ==
    /\ pc = "list_known_networks"
    /\ inflight' = inflight - 1
    /\ handler_done
    /\ \E r \in KnownListings :
          LET same(k) == Some(k.path) = selected_known_path
              found == IF r.kind = "Ok" THEN FirstIndex(r.val, same) ELSE 0
          IN  IF r.kind = "Ok"
              THEN /\ known_networks' = r.val
                   /\ IF ~selected_known_path.some
                      THEN UNCHANGED <<selected_known_path, selected_known_details,
                                       selected_known_autoconnect>>
                      ELSE IF found # 0
                      THEN /\ selected_known_details' = format_known_network(r.val[found])
                           /\ selected_known_autoconnect' = r.val[found].autoconnect
                           /\ UNCHANGED selected_known_path
                      ELSE /\ selected_known_path' = None
                           /\ selected_known_details' = <<>>
                           /\ selected_known_autoconnect' = None
                   /\ status_line' = Status("Loaded", "", <<>>,
                          <<Len(devices), Len(visible_networks), Len(r.val)>>)
              ELSE /\ status_line' = StatusErr("Failed to load saved networks", r.err)
                   /\ UNCHANGED <<known_networks, selected_known_path,
                                  selected_known_details, selected_known_autoconnect>>
    /\ UNCHANGED <<arg_path, arg_secret, published, guards, calls, out, agentVars,
                   daemonVars, action, initialized, active_tab, devices,
                   selected_device_path, visible_networks, connect_ssid,
                   connect_passphrase>>
    /\ UNCHANGED <<lockVars, listVars>>
    /\ note_replaced

\* As update_first, with `initialized` set only once the refresh could
\* open its connection: update() tries again on a later frame.
update_first_until_connected ==
    /\ ui_dispatches
    /\ ~initialized
    /\ action' = "refresh"
    /\ refresh_all(<<>>, status_line, inflight)
    /\ initialized' = (pc' = "list_devices")
    /\ UNCHANGED <<arg_path, arg_secret, published, guards, out, agentVars, daemonVars,
                   active_tab, devices, selected_device_path, visible_networks,
                   known_networks, connect_ssid, connect_passphrase, selected_known_path,
                   selected_known_details, selected_known_autoconnect>>
    /\ UNCHANGED <<lockVars, listVars>>
    /\ nothing_replaced

\* update(): the automatic refresh of the first frame
update_first ==
    /\ ui_dispatches
    /\ ~initialized
    /\ initialized' = TRUE
    /\ action' = "refresh"
    /\ refresh_all(<<>>, status_line, inflight)
    /\ UNCHANGED <<arg_path, arg_secret, published, guards, out, agentVars, daemonVars,
                   active_tab, devices, selected_device_path, visible_networks,
                   known_networks, connect_ssid, connect_passphrase, selected_known_path,
                   selected_known_details, selected_known_autoconnect>>
    /\ UNCHANGED <<lockVars, listVars>>
    /\ nothing_replaced

\* The "Refresh Devices" button of the top panel and the "Refresh" button
\* of either tab.
click_refresh ==
    /\ ui_dispatches
    /\ initialized
    /\ action' = "refresh"
    /\ refresh_all(<<>>, status_line, inflight)
    /\ UNCHANGED <<arg_path, arg_secret, published, guards, out, agentVars, daemonVars,
                   initialized, active_tab, devices, selected_device_path,
                   visible_networks, known_networks, connect_ssid, connect_passphrase,
                   selected_known_path, selected_known_details,
                   selected_known_autoconnect>>
    /\ UNCHANGED <<lockVars, listVars>>
    /\ nothing_replaced

\* The device selector of the top panel.
select_device ==
    /\ ui_dispatches
    /\ initialized
    /\ \E i \in 1..Len(devices) : selected_device_path' = Some(devices[i].path)
    /\ UNCHANGED <<clientVars, agentVars, daemonVars, action, initialized, active_tab,
                   devices, visible_networks, known_networks, connect_ssid,
                   connect_passphrase, selected_known_path, selected_known_details,
                   selected_known_autoconnect, status_line>>
    /\ UNCHANGED <<lockVars, listVars, histVars>>

\* The tab selector of the top panel.
select_tab ==
    /\ ui_dispatches
    /\ initialized
    /\ active_tab' \in {"Networks", "Saved"} \ {active_tab}
    /\ UNCHANGED <<clientVars, agentVars, daemonVars, action, initialized, devices,
                   selected_device_path, visible_networks, known_networks, connect_ssid,
                   connect_passphrase, selected_known_path, selected_known_details,
                   selected_known_autoconnect, status_line>>
    /\ UNCHANGED <<lockVars, listVars, histVars>>

\* The SSID and passphrase text fields of the Networks tab.
edit_connect_ssid ==
    /\ ui_dispatches
    /\ initialized
    /\ active_tab = "Networks"
    /\ connect_ssid' \in SsidInputs \ {connect_ssid}
    /\ UNCHANGED <<clientVars, agentVars, daemonVars, action, initialized, active_tab,
                   devices, selected_device_path, visible_networks, known_networks,
                   connect_passphrase, selected_known_path, selected_known_details,
                   selected_known_autoconnect, status_line>>
    /\ UNCHANGED <<lockVars, listVars, histVars>>

edit_connect_passphrase ==
    /\ ui_dispatches
    /\ initialized
    /\ active_tab = "Networks"
    /\ connect_passphrase' \in PassphraseInputs \ {connect_passphrase}
    /\ UNCHANGED <<clientVars, agentVars, daemonVars, action, initialized, active_tab,
                   devices, selected_device_path, visible_networks, known_networks,
                   connect_ssid, selected_known_path, selected_known_details,
                   selected_known_autoconnect, status_line>>
    /\ UNCHANGED <<lockVars, listVars, histVars>>

\* The rows draw_networks_tab shows: with a device selected, only the
\* networks whose device_path is that device.
shown_in_grid(network) ==
    ~(selected_device_path.some /\ network.device_path # selected_device_path)

\* A click on the SSID label of a shown row.
click_network_label ==
    /\ ui_dispatches
    /\ initialized
    /\ active_tab = "Networks"
    /\ \E i \in 1..Len(visible_networks) :
          /\ shown_in_grid(visible_networks[i])
          /\ connect_ssid' = visible_networks[i].ssid
    /\ UNCHANGED <<clientVars, agentVars, daemonVars, action, initialized, active_tab,
                   devices, selected_device_path, visible_networks, known_networks,
                   connect_passphrase, selected_known_path, selected_known_details,
                   selected_known_autoconnect, status_line>>
    /\ UNCHANGED <<lockVars, listVars, histVars>>

\* As scan_networks, with the bus connection opened before the selection
\* is looked at.
scan_networks_opens_first ==
    /\ action' = "scan"
    /\ \/ /\ status_line' = ConnectionFailed
          /\ calls' = <<>>
          /\ handler_done
          /\ UNCHANGED <<arg_path, inflight>>
       \/ IF ~selected_device_path.some
          THEN /\ status_line' = StatusMsg("Select a device first")
               /\ calls' = <<Opened>>
               /\ handler_done
               /\ UNCHANGED <<arg_path, inflight>>
          ELSE /\ arg_path' = selected_device_path.val
               /\ calls' = <<Opened, Op("Scan", selected_device_path.val)>>
               /\ inflight' = inflight + 1
               /\ pc' = "Scan"
               /\ UNCHANGED status_line
    /\ UNCHANGED <<arg_secret, published, guards, out, agentVars, daemonVars,
                   initialized, active_tab, devices, selected_device_path,
                   visible_networks, known_networks, connect_ssid, connect_passphrase,
                   selected_known_path, selected_known_details,
                   selected_known_autoconnect>>

\* scan_networks to its first blocking call, or to its return
scan_networks ==
    /\ action' = "scan"
    /\ IF ~selected_device_path.some
       THEN /\ status_line' = StatusMsg("Select a device first")
            /\ calls' = <<>>
            /\ handler_done
            /\ UNCHANGED <<arg_path, inflight>>
       ELSE \/ /\ status_line' = ConnectionFailed
               /\ calls' = <<>>
               /\ handler_done
               /\ UNCHANGED <<arg_path, inflight>>
            \/ /\ arg_path' = selected_device_path.val
               /\ calls' = <<Opened, Op("Scan", selected_device_path.val)>>
               /\ inflight' = inflight + 1
               /\ pc' = "Scan"
               /\ UNCHANGED status_line
    /\ UNCHANGED <<arg_secret, published, guards, out, agentVars, daemonVars,
                   initialized, active_tab, devices, selected_device_path,
                   visible_networks, known_networks, connect_ssid, connect_passphrase,
                   selected_known_path, selected_known_details,
                   selected_known_autoconnect>>

\* The "Scan" button of the Networks tab.
click_scan ==
    /\ ui_dispatches
    /\ initialized
    /\ active_tab = "Networks"
    /\ scan_networks
    /\ UNCHANGED <<lockVars, listVars, histVars>>

\* Variant: a failed Scan call is sent a second time before the handler
\* gives up.
Scan_returns_retries ==
    /\ pc = "Scan"
    /\ \/ /\ Len(calls) < 3
          /\ calls' = Append(calls, Op("Scan", arg_path))
          /\ UNCHANGED <<pc, status_line, inflight>>
       \/ /\ Len(calls) >= 3
          /\ status_line' = StatusErr("Scan failed", "Scan failed")
          /\ inflight' = inflight - 1
          /\ handler_done
          /\ UNCHANGED calls
       \/ refresh_all(calls, StatusMsg("Scan requested"), inflight - 1)
    /\ UNCHANGED <<arg_path, arg_secret, published, guards, out, agentVars, daemonVars,
                   action, initialized, active_tab, devices, selected_device_path,
                   visible_networks, known_networks, connect_ssid, connect_passphrase,
                   selected_known_path, selected_known_details,
                   selected_known_autoconnect>>
    /\ UNCHANGED <<lockVars, listVars>>
    /\ nothing_replaced

\* scan_networks, after backend.scan returned
Scan_returns ==
    /\ pc = "Scan"
    /\ \/ /\ status_line' = StatusErr("Scan failed", "Scan failed")
          /\ inflight' = inflight - 1
          /\ handler_done
          /\ UNCHANGED calls
       \/ refresh_all(calls, StatusMsg("Scan requested"), inflight - 1)
    /\ UNCHANGED <<arg_path, arg_secret, published, guards, out, agentVars, daemonVars,
                   action, initialized, active_tab, devices, selected_device_path,
                   visible_networks, known_networks, connect_ssid, connect_passphrase,
                   selected_known_path, selected_known_details,
                   selected_known_autoconnect>>
    /\ UNCHANGED <<lockVars, listVars>>
    /\ nothing_replaced

\* Variant: the candidate is looked up by SSID alone, whatever adapter is
\* selected.
connect_to_selected_network_any_adapter(ssid_field) ==
    /\ action' = "connect"
    /\ LET ssid == trim(ssid_field)
           matches(n) == n.ssid = ssid
           candidate == FirstIndex(visible_networks, matches)
           passphrase == trim(connect_passphrase)
       IN  IF is_empty(ssid)
           THEN /\ status_line' = StatusMsg("SSID cannot be empty")
                /\ calls' = <<>>
                /\ handler_done
                /\ UNCHANGED <<arg_path, arg_secret, out>>
           ELSE IF candidate = 0
           THEN /\ status_line' = StatusMsg("Selected SSID not found in visible list")
                /\ calls' = <<>>
                /\ handler_done
                /\ UNCHANGED <<arg_path, arg_secret, out>>
           ELSE \/ /\ status_line' = ConnectionFailed
                   /\ calls' = <<>>
                   /\ handler_done
                   /\ UNCHANGED <<arg_path, arg_secret, out>>
                \/ /\ calls' = <<Opened>>
                   /\ connect_network_enter(visible_networks[candidate].path,
                          IF is_empty(passphrase) THEN None ELSE Some(passphrase))
                   /\ UNCHANGED status_line
    /\ UNCHANGED <<published, guards, inflight, agentVars, daemonVars,
                   initialized, active_tab, devices, selected_device_path,
                   visible_networks, known_networks, connect_passphrase,
                   selected_known_path, selected_known_details,
                   selected_known_autoconnect>>

\* Variant: the passphrase field is handed over as typed, blank or not.
connect_to_selected_network_untrimmed(ssid_field) ==
    /\ action' = "connect"
    /\ LET ssid == trim(ssid_field)
           matches(n) ==
               /\ n.ssid = ssid
               /\ (~selected_device_path.some \/ n.device_path = selected_device_path)
           candidate == FirstIndex(visible_networks, matches)
       IN  IF is_empty(ssid)
           THEN /\ status_line' = StatusMsg("SSID cannot be empty")
                /\ calls' = <<>>
                /\ handler_done
                /\ UNCHANGED <<arg_path, arg_secret, out>>
           ELSE IF candidate = 0
           THEN /\ status_line' = StatusMsg("Selected SSID not found in visible list")
                /\ calls' = <<>>
                /\ handler_done
                /\ UNCHANGED <<arg_path, arg_secret, out>>
           ELSE \/ /\ status_line' = ConnectionFailed
                   /\ calls' = <<>>
                   /\ handler_done
                   /\ UNCHANGED <<arg_path, arg_secret, out>>
                \/ /\ calls' = <<Opened>>
                   /\ connect_network_enter(visible_networks[candidate].path,
                          Some(connect_passphrase))
                   /\ UNCHANGED status_line
    /\ UNCHANGED <<published, guards, inflight, agentVars, daemonVars,
                   initialized, active_tab, devices, selected_device_path,
                   visible_networks, known_networks, connect_passphrase,
                   selected_known_path, selected_known_details,
                   selected_known_autoconnect>>

\* connect_to_selected_network to the entry of backend.connect_network, or
\* to its return; `ssid_field` is self.connect_ssid as the handler finds it
connect_to_selected_network(ssid_field) ==
    /\ action' = "connect"
    /\ LET ssid == trim(ssid_field)
           matches(n) ==
               /\ n.ssid = ssid
               /\ (~selected_device_path.some \/ n.device_path = selected_device_path)
           candidate == FirstIndex(visible_networks, matches)
           passphrase == trim(connect_passphrase)
       IN  IF is_empty(ssid)
           THEN /\ status_line' = StatusMsg("SSID cannot be empty")
                /\ calls' = <<>>
                /\ handler_done
                /\ UNCHANGED <<arg_path, arg_secret, out>>
           ELSE IF candidate = 0
           THEN /\ status_line' = StatusMsg("Selected SSID not found in visible list")
                /\ calls' = <<>>
                /\ handler_done
                /\ UNCHANGED <<arg_path, arg_secret, out>>
           ELSE \/ /\ status_line' = ConnectionFailed
                   /\ calls' = <<>>
                   /\ handler_done
                   /\ UNCHANGED <<arg_path, arg_secret, out>>
                \/ /\ calls' = <<Opened>>
                   /\ connect_network_enter(visible_networks[candidate].path,
                          IF is_empty(passphrase) THEN None ELSE Some(passphrase))
                   /\ UNCHANGED status_line
    /\ UNCHANGED <<published, guards, inflight, agentVars, daemonVars,
                   initialized, active_tab, devices, selected_device_path,
                   visible_networks, known_networks, connect_passphrase,
                   selected_known_path, selected_known_details,
                   selected_known_autoconnect>>

\* The "Connect" button beside the text fields.
click_connect ==
    /\ ui_dispatches
    /\ initialized
    /\ active_tab = "Networks"
    /\ connect_to_selected_network(connect_ssid)
    /\ UNCHANGED connect_ssid
    /\ UNCHANGED <<lockVars, listVars, histVars>>

\* The "Connect" button of a shown row: the row's SSID is put into the
\* field, then the handler runs.
click_row_connect ==
    /\ ui_dispatches
    /\ initialized
    /\ active_tab = "Networks"
    /\ \E i \in 1..Len(visible_networks) :
          /\ shown_in_grid(visible_networks[i])
          /\ connect_ssid' = visible_networks[i].ssid
          /\ connect_to_selected_network(visible_networks[i].ssid)
    /\ UNCHANGED <<lockVars, listVars, histVars>>

\* connect_to_selected_network, after backend.connect_network returned
connect_network_returned ==
    /\ pc = "returned"
    /\ IF out.result = "Ok"
       THEN refresh_all(calls, StatusName("Connect requested", trim(connect_ssid)), inflight)
       ELSE /\ status_line' = StatusErr("Connection failed", out.result)
            /\ handler_done
            /\ UNCHANGED <<calls, inflight>>
    /\ UNCHANGED <<arg_path, arg_secret, published, guards, out, agentVars, daemonVars,
                   action, initialized, active_tab, devices, selected_device_path,
                   visible_networks, known_networks, connect_ssid, connect_passphrase,
                   selected_known_path, selected_known_details,
                   selected_known_autoconnect>>
    /\ UNCHANGED <<lockVars, listVars>>
    /\ nothing_replaced

\* A click on the name of a row of the Saved tab: select_known_network
select_known_network ==
    /\ ui_dispatches
    /\ initialized
    /\ active_tab = "Saved"
    /\ \E i \in 1..Len(known_networks) :
          LET known == known_networks[i]
          IN  /\ selected_known_path' = Some(known.path)
              /\ selected_known_autoconnect' = known.autoconnect
              /\ selected_known_details' = format_known_network(known)
              /\ status_line' = StatusName("Loaded saved network details", known.name)
    /\ UNCHANGED <<clientVars, agentVars, daemonVars, action, initialized, active_tab,
                   devices, selected_device_path, visible_networks, known_networks,
                   connect_ssid, connect_passphrase>>
    /\ UNCHANGED <<lockVars, listVars, histVars>>

\* forget_known_network(known_path, name) to its blocking Forget call, or
\* to its return
forget_known_network(known_path, name) ==
    /\ action' = "forget"
    /\ \/ /\ status_line' = ConnectionFailed
          /\ calls' = <<>>
          /\ handler_done
          /\ UNCHANGED <<arg_path, inflight>>
       \/ /\ arg_path' = known_path
          /\ calls' = <<Opened, Op("Forget", known_path)>>
          /\ inflight' = inflight + 1
          /\ pc' = "Forget"
          /\ UNCHANGED status_line
    /\ UNCHANGED <<arg_secret, published, guards, out, agentVars, daemonVars,
                   initialized, active_tab, devices, selected_device_path,
                   visible_networks, known_networks, connect_ssid, connect_passphrase,
                   selected_known_path, selected_known_details,
                   selected_known_autoconnect>>

\* The "Forget" button of a row of the Saved tab.
click_forget ==
    /\ ui_dispatches
    /\ initialized
    /\ active_tab = "Saved"
    /\ \E i \in 1..Len(known_networks) :
          forget_known_network(known_networks[i].path, known_networks[i].name)
    /\ UNCHANGED <<lockVars, listVars, histVars>>

\* The display name of the known network a Forget call was sent for.
forgotten_name ==
    LET same(k) == k.path = arg_path
    IN  known_networks[FirstIndex(known_networks, same)].name

\* Variant: a successful forget leaves the selection to the refresh that
\* follows it.
Forget_returns_keeps_selection ==
    /\ pc = "Forget"
    /\ \/ /\ status_line' = StatusErr("Failed to forget", "Forget failed")
          /\ inflight' = inflight - 1
          /\ handler_done
          /\ UNCHANGED calls
       \/ refresh_all(calls, StatusName("Forgot saved network", forgotten_name),
                      inflight - 1)
    /\ UNCHANGED <<arg_path, arg_secret, published, guards, out, agentVars, daemonVars,
                   action, initialized, active_tab, devices, selected_device_path,
                   visible_networks, known_networks, connect_ssid, connect_passphrase,
                   selected_known_path, selected_known_details,
                   selected_known_autoconnect>>
    /\ UNCHANGED <<lockVars, listVars>>
    /\ nothing_replaced

\* Variant: forget_known_network drops the selection before it looks at the
\* result of the call.
Forget_returns_clears_on_failure ==
    /\ pc = "Forget"
    /\ IF selected_known_path = Some(arg_path)
       THEN /\ selected_known_path' = None
            /\ selected_known_details' = <<>>
            /\ selected_known_autoconnect' = None
       ELSE UNCHANGED <<selected_known_path, selected_known_details,
                        selected_known_autoconnect>>
    /\ \/ /\ status_line' = StatusErr("Failed to forget", "Forget failed")
          /\ inflight' = inflight - 1
          /\ handler_done
          /\ UNCHANGED calls
       \/ refresh_all(calls, StatusName("Forgot saved network", forgotten_name),
                      inflight - 1)
    /\ UNCHANGED <<arg_path, arg_secret, published, guards, out, agentVars, daemonVars,
                   action, initialized, active_tab, devices, selected_device_path,
                   visible_networks, known_networks, connect_ssid, connect_passphrase>>
    /\ UNCHANGED <<lockVars, listVars>>
    /\ nothing_replaced

\* forget_known_network, after backend.forget_known_network returned
Forget_returns ==
    /\ pc = "Forget"
    /\ \/ /\ status_line' = StatusErr("Failed to forget", "Forget failed")
          /\ inflight' = inflight - 1
          /\ handler_done
          /\ UNCHANGED <<calls, selected_known_path, selected_known_details,
                         selected_known_autoconnect>>
       \/ /\ IF selected_known_path = Some(arg_path)
             THEN /\ selected_known_path' = None
                  /\ selected_known_details' = <<>>
                  /\ selected_known_autoconnect' = None
             ELSE UNCHANGED <<selected_known_path, selected_known_details,
                              selected_known_autoconnect>>
          /\ refresh_all(calls, StatusName("Forgot saved network", forgotten_name),
                         inflight - 1)
    /\ UNCHANGED <<arg_path, arg_secret, published, guards, out, agentVars, daemonVars,
                   action, initialized, active_tab, devices, selected_device_path,
                   visible_networks, known_networks, connect_ssid, connect_passphrase>>
    /\ UNCHANGED <<lockVars, listVars>>
    /\ nothing_replaced

\* set_known_autoconnect(enabled) to its blocking property write, or to
\* its return
set_known_autoconnect(enabled) ==
    /\ action' = "autoconnect"
    /\ IF ~selected_known_path.some
       THEN /\ status_line' = StatusMsg("Select a saved network first")
            /\ calls' = <<>>
            /\ handler_done
            /\ UNCHANGED <<arg_path, inflight>>
       ELSE \/ /\ status_line' = ConnectionFailed
               /\ calls' = <<>>
               /\ handler_done
               /\ UNCHANGED <<arg_path, inflight>>
            \/ /\ arg_path' = selected_known_path.val
               /\ calls' = <<Opened, Op(IF enabled THEN "Set AutoConnect true"
                                        ELSE "Set AutoConnect false",
                                        selected_known_path.val)>>
               /\ inflight' = inflight + 1
               /\ pc' = "SetAutoConnect"
               /\ UNCHANGED status_line
    /\ UNCHANGED <<arg_secret, published, guards, out, agentVars, daemonVars,
                   initialized, active_tab, devices, selected_device_path,
                   visible_networks, known_networks, connect_ssid, connect_passphrase,
                   selected_known_path, selected_known_details,
                   selected_known_autoconnect>>

\* The AutoConnect checkbox of the Saved tab: drawn when a known network is
\* selected and its AutoConnect value is known; a click hands over the
\* flipped value.
click_autoconnect ==
    /\ ui_dispatches
    /\ initialized
    /\ active_tab = "Saved"
    /\ selected_known_path.some
    /\ selected_known_autoconnect.some
    /\ set_known_autoconnect(~selected_known_autoconnect.val)
    /\ UNCHANGED <<lockVars, listVars, histVars>>

\* As SetAutoConnect_returns, without the refresh_all of the Ok arm.
SetAutoConnect_returns_without_refresh ==
    /\ pc = "SetAutoConnect"
    /\ \/ /\ status_line' = StatusErr("Failed to update AutoConnect", "Set failed")
       \/ /\ status_line' = StatusMsg("Updated AutoConnect")
    /\ inflight' = inflight - 1
    /\ handler_done
    /\ UNCHANGED calls
    /\ UNCHANGED <<arg_path, arg_secret, published, guards, out, agentVars, daemonVars,
                   action, initialized, active_tab, devices, selected_device_path,
                   visible_networks, known_networks, connect_ssid, connect_passphrase,
                   selected_known_path, selected_known_details,
                   selected_known_autoconnect>>
    /\ UNCHANGED <<lockVars, listVars>>
    /\ nothing_replaced

\* set_known_autoconnect, after backend.set_known_autoconnect returned
SetAutoConnect_returns ==
    /\ pc = "SetAutoConnect"
    /\ \/ /\ status_line' = StatusErr("Failed to update AutoConnect", "Set failed")
          /\ inflight' = inflight - 1
          /\ handler_done
          /\ UNCHANGED calls
       \/ refresh_all(calls, StatusMsg("Updated AutoConnect"), inflight - 1)
    /\ UNCHANGED <<arg_path, arg_secret, published, guards, out, agentVars, daemonVars,
                   action, initialized, active_tab, devices, selected_device_path,
                   visible_networks, known_networks, connect_ssid, connect_passphrase,
                   selected_known_path, selected_known_details,
                   selected_known_autoconnect>>
    /\ UNCHANGED <<lockVars, listVars>>
    /\ nothing_replaced

\* The handler returns into update(): its locals are dropped, and with every
\* IwdDbus its connection, the connection's object server and (the daemon
\* watches its clients) what the agent manager held for it.
handler_returns ==
    /\ pc = "done"
    /\ pc' = "idle"
    /\ action' = "none"
    /\ arg_path' = ""
    /\ arg_secret' = None
    /\ published' = None
    /\ mgrAgent' = FALSE
    /\ calls' = <<>>
    /\ out' = NoOutcome
    /\ replies' = {}
    /\ prompts' = 0
    /\ notified' = NoNotification
    /\ UNCHANGED <<guards, inflight, initialized, active_tab, devices,
                   selected_device_path, visible_networks, known_networks, connect_ssid,
                   connect_passphrase, selected_known_path, selected_known_details,
                   selected_known_autoconnect, status_line>>
    /\ nothing_replaced
    /\ UNCHANGED <<lockVars, listVars>>

Next ==
    \/ update_first
    \/ click_refresh
    \/ select_device
    \/ select_tab
    \/ edit_connect_ssid
    \/ edit_connect_passphrase
    \/ click_network_label
    \/ click_scan
    \/ click_connect
    \/ click_row_connect
    \/ select_known_network
    \/ click_forget
    \/ click_autoconnect
    \/ list_devices_returns
    \/ list_visible_networks_returns
    \/ list_known_networks_returns
    \/ Scan_returns
    \/ RegisteredAgent_new
    \/ RegisterAgent_fails
    \/ RegisterAgent_succeeds
    \/ connect_network_no_agent
    \/ Connect_returns
    \/ RegisteredAgent_drop
    \/ connect_network_returned
    \/ Forget_returns
    \/ SetAutoConnect_returns
    \/ handler_returns

\* The presentation layer driving the bus client, with the daemon.
Spec == Init /\ [][Next]_vars

\* ------------------------------------------- the bus client under any caller
\* Object paths of Network objects a caller may name.
NetworkPaths == {NetH0.path, NetC1.path}

\* The secrets a caller of connect_network may pass: any string, also an
\* empty one and one of whitespace only.
Secrets == StringsUpTo(MaxSecretLen)

\* A caller of the facade calls connect_network on one IwdDbus, with any
\* network path and any passphrase, one call after the other.
CallConnect ==
    /\ pc = "idle"
    /\ \E path \in NetworkPaths, secret \in {None} \cup {Some(x) : x \in Secrets} :
          connect_network_enter(path, secret)
    /\ calls' = <<>>
    /\ UNCHANGED <<published, guards, inflight, agentVars, daemonVars, appVars>>
    /\ UNCHANGED <<lockVars, listVars, histVars>>

\* connect_network's frame is gone; the connection and what is published
\* on it stay with the caller.
ReturnToCaller ==
    /\ pc = "returned"
    /\ pc' = "idle"
    /\ arg_path' = ""
    /\ arg_secret' = None
    /\ out' = NoOutcome
    /\ calls' = <<>>
    /\ UNCHANGED <<published, guards, inflight, agentVars, daemonVars, appVars>>
    /\ UNCHANGED <<lockVars, listVars, histVars>>

ClientNext ==
    \/ CallConnect
    \/ RegisteredAgent_new
    \/ RegisterAgent_fails
    \/ RegisterAgent_succeeds
    \/ connect_network_no_agent
    \/ Connect_returns
    \/ RegisteredAgent_drop
    \/ ReturnToCaller
    \/ AgentRequest
    \/ AgentRelease
    \/ AgentCancel

\* ------------------------------------------ the list operations by themselves
\* Most objects in the daemon's tree.
MaxObjects == 3

Dev2Path == "/net/connman/iwd/0/5"
Dev3Path == "/net/connman/iwd/0/6"

\* A second adapter named like Dev0, and an adapter whose Name cannot be read.
DevTwin == Object(Dev2Path, {DEVICE_IFACE, STATION_IFACE}, Some(<<"w", "0">>),
               None, None, None, None, None, None)
DevNoName == Object(Dev3Path, {DEVICE_IFACE}, None,
               None, None, None, None, None, None)

CafeWifi == Object("/net/connman/iwd/0/3/436166_open", {NETWORK_IFACE},
               Some(<<"C", "a", "f", "e", "W", "i", "f", "i">>),
               Some("open"), Some(FALSE), Some(0), Some(Dev0Path), None, None)
HomeNet == Object("/net/connman/iwd/0/3/486f6d_psk", {NETWORK_IFACE},
               Some(<<"H", "o", "m", "e", "N", "e", "t">>),
               Some("psk"), Some(TRUE), Some(0 - 45), Some(Dev0Path), None, None)
\* A network with none of its optional properties, and one without a Name.
NetBare == Object("/net/connman/iwd/0/4/61_open", {NETWORK_IFACE}, Some(<<"a">>),
               None, None, None, None, None, None)
NetNoName == Object("/net/connman/iwd/0/4/62_psk", {NETWORK_IFACE}, None,
               Some("psk"), Some(FALSE), Some(0 - 60), Some(Dev1Path), None, None)

\* A second known network named like KnownH, and one without a Name.
KnownTwin == Object("/net/connman/iwd/68_8021x", {KNOWN_NETWORK_IFACE}, Some(<<"h">>),
               Some("8021x"), None, None, None, Some(FALSE), None)
KnownNoName == Object("/net/connman/iwd/6e_psk", {KNOWN_NETWORK_IFACE}, None,
               Some("psk"), None, None, None, Some(TRUE), Some(TRUE))

\* The objects a tree is made of; their paths differ, as the keys of the
\* ManagedObjects map do.
ObjectPool ==
    {Dev0, Dev1, DevTwin, DevNoName,
     NetH0, NetC1, NetCx, CafeWifi, HomeNet, NetBare, NetNoName,
     KnownH, KnownC, KnownTwin, KnownNoName}

ListCatalogs == {S \in SUBSET ObjectPool : Cardinality(S) <= MaxObjects}

\* The adapter a caller may pass to list_visible_networks.
ListSelections == {None, Some(Dev0Path), Some(Dev1Path)}

\* What managed_objects returns for the tree: the call fails, or the map
\* comes in one of its iteration orders.
managed_objects_of(objects) ==
    {Err("GetManagedObjects failed")} \cup {Ok(o) : o \in Orders(objects)}

ListInit ==
    /\ ClientInit
    /\ AppInit
    /\ LockInit
    /\ catalog \in ListCatalogs
    /\ listing = NoListing
    /\ HistInit

list_devices_called ==
    /\ \E reply \in managed_objects_of(catalog) :
          listing' = [op |-> "list_devices", sel |-> None, result |-> list_devices(reply)]
    /\ UNCHANGED <<catalog, clientVars, agentVars, daemonVars, appVars, lockVars, histVars>>

list_visible_networks_called ==
    /\ \E reply \in managed_objects_of(catalog), sel \in ListSelections :
          listing' = [op |-> "list_visible_networks", sel |-> sel,
                      result |-> list_visible_networks(reply, sel)]
    /\ UNCHANGED <<catalog, clientVars, agentVars, daemonVars, appVars, lockVars, histVars>>

list_known_networks_called ==
    /\ \E reply \in managed_objects_of(catalog) :
          listing' = [op |-> "list_known_networks", sel |-> None,
                      result |-> list_known_networks(reply)]
    /\ UNCHANGED <<catalog, clientVars, agentVars, daemonVars, appVars, lockVars, histVars>>

ListNext ==
    \/ list_devices_called
    \/ list_visible_networks_called
    \/ list_known_networks_called

\* One caller listing again and again from one daemon tree.
SpecList == ListInit /\ [][ListNext]_vars

\* The facade and the agent by themselves.
SpecClient == Init /\ [][ClientNext]_vars

\* The calling thread in connect_network and the dispatch thread in the
\* agent's credential requests, with the lock of the agent's state.
LockNext ==
    \/ CallConnect
    \/ RegisteredAgent_new
    \/ RegisterAgent_fails
    \/ RegisterAgent_succeeds
    \/ connect_network_no_agent
    \/ Connect_returns
    \/ RegisteredAgent_drop
    \/ ReturnToCaller
    \/ passphrase_or_cancel_lock
    \/ passphrase_or_cancel_unlock

SpecLock == Init /\ [][LockNext]_vars

\* ------------------------------------------------------------- properties
\* The remote calls of one connect_network call that concern the agent and
\* the connection attempt, in the order they were made.
IsAgentOrConnectCall(c) == c.op \in {"RegisterAgent", "Connect", "UnregisterAgent"}
AgentAndConnectCalls == [i \in DOMAIN SelectSeq(calls, IsAgentOrConnectCall) |->
                            SelectSeq(calls, IsAgentOrConnectCall)[i].op]

IsPrefix(s, t) == Len(s) <= Len(t) /\ \A i \in DOMAIN s : s[i] = t[i]

\* connect_network is between publishing its agent and returning.
AttemptWithSecret ==
    arg_secret.some /\ pc \in {"RegisterAgent", "Connect", "UnregisterAgent", "returned"}

Blank(secret) == is_empty(trim(secret))

\* C1: a connect_network call with a secret that reaches its Connect call
\* makes exactly one RegisterAgent call before it, one Connect call and one
\* UnregisterAgent call after it, in this order, whether Connect succeeded
\* or failed; until it returns, its calls are a prefix of that sequence.
C1_RegisterConnectUnregister ==
    AttemptWithSecret =>
        /\ IsPrefix(AgentAndConnectCalls, <<"RegisterAgent", "Connect", "UnregisterAgent">>)
        /\ (pc = "returned" /\ out.connect # "none") =>
              AgentAndConnectCalls = <<"RegisterAgent", "Connect", "UnregisterAgent">>

C1_Witness ==
    /\ pc = "returned"
    /\ arg_secret.some
    /\ out.connect = "Err"
    /\ AgentAndConnectCalls = <<"RegisterAgent", "Connect", "UnregisterAgent">>

\* C2: when a connect_network call with a secret has returned, on whatever
\* path, no agent object is left published on the connection.
C2_NoAgentLeftPublished ==
    (pc = "returned" /\ arg_secret.some) => ~published.some

\* C3: while the Connect call of a connect_network call with a secret is
\* outstanding, the agent holding this call's secret is published at the
\* agent path and registered with the manager, under one live guard, and
\* every prompt the daemon sent was answered from this secret.
C3_AgentReadyDuringConnect ==
    (pc = "Connect" /\ arg_secret.some) =>
        /\ published = Some(IwdAgent_new(arg_secret.val))
        /\ mgrAgent
        /\ guards = 1
        /\ \A e \in replies :
              e.reply = AgentAnswer(e.reply.req, IwdAgent_new(arg_secret.val))

C3_Witness ==
    /\ pc = "Connect"
    /\ arg_secret.some
    /\ mgrAgent
    /\ \E e \in replies : e.reply.kind = "Ok" /\ e.reply.secret = arg_secret.val

\* C4: a connect_network call without a secret publishes no agent, builds
\* no guard and makes no RegisterAgent or UnregisterAgent call: the one
\* call it makes on the bus is Connect on the network it was given.
C4_NoSecretOnlyConnect ==
    (~arg_secret.some /\ pc \in {"Connect", "UnregisterAgent", "returned"}) =>
        /\ pc # "UnregisterAgent"
        /\ guards = 0
        /\ \A i \in DOMAIN calls : calls[i].op \notin {"at", "remove"}
        /\ SelectSeq(calls, IsAgentOrConnectCall) = <<Op("Connect", arg_path)>>

C4_Witness ==
    /\ pc = "returned"
    /\ ~arg_secret.some
    /\ out.result = "Ok"
    /\ calls = <<Op("Connect", arg_path)>>

\* C5 as stated: once the guard has been dropped the manager no longer
\* holds the agent path, also when the UnregisterAgent call failed.
C5_UnregisteredAfterAnyDrop ==
    (pc = "returned" /\ out.unregister # "none") => ~mgrAgent

\* C5: while a guard lives the agent is published and the manager holds the
\* agent path; once the guard has been dropped the agent object is no longer
\* published, and the manager no longer holds the path if the
\* UnregisterAgent call succeeded (a failed call is ignored and leaves the
\* manager's registration as it was).
C5_GuardRoundTrip ==
    /\ guards > 0 => (published.some /\ mgrAgent)
    /\ (pc = "returned" /\ out.unregister # "none") =>
          /\ guards = 0
          /\ ~published.some
          /\ out.unregister = "Ok" => ~mgrAgent

C5_Witness ==
    /\ pc = "returned"
    /\ out.unregister = "Err"
    /\ guards = 0
    /\ ~published.some
    /\ mgrAgent

\* C6: when the secret of the attempt is empty or only whitespace, every
\* credential request (passphrase, private-key passphrase, user name and
\* password, user password) is answered with the Canceled error.
C6_BlankSecretCancels ==
    (AttemptWithSecret /\ Blank(arg_secret.val)) =>
        \A e \in replies :
            /\ e.reply.kind = "Canceled"
            /\ e.reply.secret = <<>>

C6_Witness ==
    /\ AttemptWithSecret
    /\ arg_secret.val = <<Space>>
    /\ \A req \in Requests : \E e \in replies : e.reply.req = req

\* C7: when the secret of the attempt is not blank, every credential
\* request is answered with the secret exactly as it was given; the user
\* name and password request answers the pair of an empty user name and
\* the secret; a request repeated during the attempt gets the same answer.
C7_SecretReturnedNotConsumed ==
    (AttemptWithSecret /\ ~Blank(arg_secret.val)) =>
        \A e \in replies :
            /\ e.reply.kind = "Ok"
            /\ e.reply.secret = arg_secret.val
            /\ e.reply.user = <<>>
            /\ e.reply.dual <=> e.reply.req = "RequestUserNameAndPassword"

C7_Witness ==
    /\ AttemptWithSecret
    /\ arg_secret.val = <<Space, "a">>
    /\ notified = NoNotification
    /\ prompts > Cardinality(replies)
    /\ \E e \in replies : e.reply.dual /\ e.reply.secret = <<Space, "a">>

\* C8: a Release or Cancel notification changes nothing: the published
\* agent, the guard and the manager's registration are as before, and a
\* request made after the notification is answered as it was before it.
NotificationStep ==
    notified'.Release + notified'.Cancel = notified.Release + notified.Cancel + 1

SameAnswers ==
    \A e1, e2 \in replies : e1.reply.req = e2.reply.req => e1.reply = e2.reply

C8_NotificationsChangeNothing ==
    /\ [][NotificationStep =>
            UNCHANGED <<published, guards, mgrAgent, replies, pc, calls, out>>]_vars
    /\ []SameAnswers

C8_Witness ==
    /\ notified.Release > 0
    /\ notified.Cancel > 0
    /\ \E e1, e2 \in replies :
          /\ e1.reply.req = e2.reply.req
          /\ e1.reply.kind = "Ok"
          /\ ~e1.after_notify
          /\ e2.after_notify

C10_OneOperationAtATime ==
    /\ inflight \in {0, 1}
    /\ guards \in {0, 1}
    /\ pc = "idle" => (inflight = 0 /\ guards = 0 /\ action = "none")
    /\ guards = 1 => (action = "connect" /\ pc \in {"Connect", "UnregisterAgent"})

C10_Witness ==
    /\ action = "connect"
    /\ pc = "Connect"
    /\ inflight = 1
    /\ guards = 1

\* The calling thread waits in a blocking bus call.
InBlockingCall == pc \in {"RegisterAgent", "Connect", "UnregisterAgent"}

\* C11: the lock of the agent's secret is never held by the thread that
\* makes the blocking bus calls; it is held only by the dispatch thread
\* while it reads the secret, so whenever a blocking call is outstanding
\* and the agent can be reached, a credential request can take the lock
\* unless one is being served right now.
C11_LockNotHeldAcrossCalls ==
    /\ lock.holder \in {"none", "dispatch"}
    /\ InBlockingCall => lock.holder # "caller"
    /\ (InBlockingCall /\ AgentReachable /\ prompts < MaxServed
            /\ lock.holder # "dispatch") =>
          ENABLED passphrase_or_cancel_lock

C11_Witness ==
    /\ pc = "Connect"
    /\ arg_secret.some
    /\ lock.holder = "dispatch"
    /\ lock.agent = IwdAgent_new(arg_secret.val)
    /\ ~Blank(arg_secret.val)

\* ------------------------------------------------- properties of the lists
\* The last list operation returned a list.
Listed(op) == listing.op = op /\ listing.result.kind = "Ok"

\* The objects of the tree that carry an interface.
ObjectsWith(iface) == {o \in catalog : iface \in o.ifaces}

\* The paths in a list of records.
PathsOf(records) == {records[i].path : i \in DOMAIN records}

\* Byte-wise lexicographic order on strings, ascending and not strict.
RECURSIVE Ascending(_, _)
Ascending(a, b) ==
    IF a = <<>> THEN TRUE
    ELSE IF b = <<>> THEN FALSE
    ELSE IF Head(a) = Head(b) THEN Ascending(Tail(a), Tail(b))
    ELSE Byte(Head(a)) < Byte(Head(b))

\* C12: when list_visible_networks is called with a selected adapter S,
\* every network it returns has no owning adapter or has the owning adapter S.
C12_ReturnedNetworksMatchSelection ==
    (Listed("list_visible_networks") /\ listing.sel.some) =>
        \A i \in DOMAIN listing.result.val :
            \/ ~listing.result.val[i].device_path.some
            \/ listing.result.val[i].device_path.val = listing.sel.val

C12_Witness ==
    /\ Listed("list_visible_networks")
    /\ listing.sel = Some(Dev0Path)
    /\ catalog = {NetH0, NetCx, NetC1}
    /\ PathsOf(listing.result.val) = {NetH0.path, NetCx.path}

\* C13: for every selection, a Network object with a readable name and no
\* resolvable owning adapter is in the list list_visible_networks returns;
\* a Network object of the tree is missing from the list only if its owning
\* adapter is known, an adapter is selected and the two differ.
C13_UnknownOwnerNeverHidden ==
    Listed("list_visible_networks") =>
        /\ PathsOf(listing.result.val) \subseteq
               {o.path : o \in ObjectsWith(NETWORK_IFACE)}
        /\ \A o \in ObjectsWith(NETWORK_IFACE) :
              /\ (o.Name.some /\ ~o.Device.some) => o.path \in PathsOf(listing.result.val)
              /\ o.path \notin PathsOf(listing.result.val) =>
                    /\ o.Device.some
                    /\ listing.sel.some
                    /\ o.Device.val # listing.sel.val

C13_Witness ==
    /\ Listed("list_visible_networks")
    /\ listing.sel = Some(Dev1Path)
    /\ catalog = {NetBare, NetCx, NetH0}
    /\ PathsOf(listing.result.val) = {NetBare.path, NetCx.path}

\* C14: the list list_devices returns is in ascending order of the display
\* names and no two of its entries have the same object path.
C14_AdaptersSortedNoDuplicates ==
    Listed("list_devices") =>
        LET r == listing.result.val
        IN  /\ \A i \in 1..(Len(r) - 1) : Ascending(r[i].name, r[i + 1].name)
            /\ \A i, j \in DOMAIN r : r[i].path = r[j].path => i = j
            /\ PathsOf(r) = {o.path : o \in ObjectsWith(DEVICE_IFACE)}

C14_Witness ==
    /\ Listed("list_devices")
    /\ catalog = {Dev1, Dev0, DevTwin}
    /\ Len(listing.result.val) = 3
    /\ listing.result.val[3].path = Dev1Path

\* C15: for every tree and every selection the list of list_visible_networks
\* is in ascending order of the SSIDs and the list of list_known_networks is
\* in ascending order of the display names.
C15_NetworksSorted ==
    /\ Listed("list_visible_networks") =>
          \A i \in 1..(Len(listing.result.val) - 1) :
              Ascending(listing.result.val[i].ssid, listing.result.val[i + 1].ssid)
    /\ Listed("list_known_networks") =>
          \A i \in 1..(Len(listing.result.val) - 1) :
              Ascending(listing.result.val[i].name, listing.result.val[i + 1].name)

C15_Witness ==
    /\ Listed("list_visible_networks")
    /\ catalog = {NetH0, HomeNet, NetBare}
    /\ Len(listing.result.val) = 3
    /\ listing.result.val[1].path = HomeNet.path
    /\ listing.result.val[2].path = NetBare.path
    /\ listing.result.val[3].path = NetH0.path

\* C16: two calls of the same list operation with the same selection on the
\* same tree that both return a list return the same list, records and
\* order, also when records have equal sort keys.
C16_SameTreeSameList ==
    [][(/\ listing'.op = listing.op
        /\ listing'.sel = listing.sel
        /\ listing.result.kind = "Ok"
        /\ listing'.result.kind = "Ok") => listing'.result = listing.result]_vars

\* The name of the object's interface `iface` cannot be read.
Unnamed(iface) == {o \in ObjectsWith(iface) : ~o.Name.some}

\* The interface a list operation lists.
ListedInterface ==
    CASE listing.op = "list_devices" -> DEVICE_IFACE
      [] listing.op = "list_visible_networks" -> NETWORK_IFACE
      [] listing.op = "list_known_networks" -> KNOWN_NETWORK_IFACE
      [] OTHER -> ""

\* C17: when one Adapter, Network or KnownNetwork object of the tree has no
\* readable name, the list operation over that interface returns an error
\* and no list, whatever the selection and the other objects are.
C17_UnreadableNameAborts ==
    (listing.op # "none" /\ Unnamed(ListedInterface) # {}) =>
        /\ listing.result.kind = "Err"
        /\ listing.result.val = <<>>

C17_Witness ==
    /\ listing.op = "list_visible_networks"
    /\ listing.sel = Some(Dev0Path)
    /\ catalog = {NetH0, NetNoName, CafeWifi}
    /\ listing.result = Err("Failed to read network name")

\* The record of a list that was made from the object at `path`.
RecordAt(records, path) == records[CHOOSE i \in DOMAIN records : records[i].path = path]

\* C18: a list operation fails only when the tree cannot be read or a name
\* is unreadable.  A Network object with a readable name that the
\* selection does not exclude is returned with security "-" when Type is
\* missing, connected false when Connected is missing, signal "-" when
\* Signal is missing and no owning adapter when Device is missing; a
\* KnownNetwork object with a readable name is returned with type "-" when
\* Type is missing.
C18_MissingOptionalDefaults ==
    /\ (listing.op # "none" /\ listing.result.kind = "Err") =>
          \/ listing.result.err = "GetManagedObjects failed"
          \/ Unnamed(ListedInterface) # {}
    /\ Listed("list_visible_networks") =>
          \A o \in ObjectsWith(NETWORK_IFACE) :
              (~o.Device.some \/ ~listing.sel.some \/ o.Device = listing.sel) =>
                  /\ o.path \in PathsOf(listing.result.val)
                  /\ LET r == RecordAt(listing.result.val, o.path)
                     IN  /\ r.security = (IF o.Type.some THEN o.Type.val ELSE "-")
                         /\ r.connected = (IF o.Connected.some THEN o.Connected.val ELSE FALSE)
                         /\ ~o.Signal.some => r.signal = <<"-">>
                         /\ r.device_path = o.Device
    /\ Listed("list_known_networks") =>
          \A o \in ObjectsWith(KNOWN_NETWORK_IFACE) :
              /\ o.path \in PathsOf(listing.result.val)
              /\ RecordAt(listing.result.val, o.path).network_type =
                    (IF o.Type.some THEN o.Type.val ELSE "-")

C18_Witness ==
    /\ Listed("list_visible_networks")
    /\ listing.sel = Some(Dev0Path)
    /\ NetBare \in catalog
    /\ KnownC \in catalog
    /\ \E i \in DOMAIN listing.result.val :
          listing.result.val[i] =
              [ssid |-> <<"a">>, security |-> "-", signal |-> <<"-">>,
               connected |-> FALSE, path |-> NetBare.path, device_path |-> None]

\* The object of the daemon's trees at `path`.
DaemonObjectAt(path) == CHOOSE o \in UNION Catalogs : o.path = path

\* C19: a record of the known-network list has its autoconnect absent when
\* the object's AutoConnect is missing and its hidden absent when Hidden is
\* missing, never false in their place; and while such an entry is the
\* selected known network the window's selected auto-connect value is absent.
C19_MissingFlagsStayAbsent ==
    /\ \A i \in DOMAIN known_networks :
          LET o == DaemonObjectAt(known_networks[i].path)
          IN  /\ known_networks[i].autoconnect = o.AutoConnect
              /\ known_networks[i].hidden = o.Hidden
              /\ ~o.AutoConnect.some => known_networks[i].autoconnect # Some(FALSE)
              /\ ~o.Hidden.some => known_networks[i].hidden # Some(FALSE)
    /\ (selected_known_path.some
            /\ ~DaemonObjectAt(selected_known_path.val).AutoConnect.some) =>
          selected_known_autoconnect = None

C19_Witness ==
    /\ selected_known_path = Some(KnownC.path)
    /\ selected_known_autoconnect = None
    /\ selected_known_details[3] = "unknown"
    /\ \E i \in DOMAIN known_networks :
          /\ known_networks[i].path = KnownC.path
          /\ known_networks[i].autoconnect = None
          /\ known_networks[i].hidden = None

\* The object of the tree at `path`.
ObjectAt(path) == CHOOSE o \in catalog : o.path = path

\* C20: in the list of list_visible_networks a network whose Signal is 0 or
\* cannot be read has the signal text "-", and a network with the signal
\* -45 has "-45 dBm"; for the tree of CafeWifi (signal 0) and HomeNet
\* (signal -45) and no selection the list is CafeWifi with "-", then
\* HomeNet with "-45 dBm".
C20_SignalText ==
    Listed("list_visible_networks") =>
        /\ \A i \in DOMAIN listing.result.val :
              LET r == listing.result.val[i]
                  o == ObjectAt(r.path)
              IN  /\ (~o.Signal.some \/ o.Signal = Some(0)) => r.signal = <<"-">>
                  /\ o.Signal = Some(0 - 45) => r.signal = <<"-", "4", "5", " ", "d", "B", "m">>
                  /\ r.signal # <<"-">> => (o.Signal.some /\ o.Signal.val # 0)
        /\ (catalog = {CafeWifi, HomeNet} /\ ~listing.sel.some) =>
              /\ Len(listing.result.val) = 2
              /\ listing.result.val[1].ssid = <<"C", "a", "f", "e", "W", "i", "f", "i">>
              /\ listing.result.val[1].signal = <<"-">>
              /\ listing.result.val[2].ssid = <<"H", "o", "m", "e", "N", "e", "t">>
              /\ listing.result.val[2].signal = <<"-", "4", "5", " ", "d", "B", "m">>

C20_Witness ==
    /\ Listed("list_visible_networks")
    /\ catalog = {CafeWifi, HomeNet}
    /\ ~listing.sel.some
    /\ listing.result.val[2].signal = <<"-", "4", "5", " ", "d", "B", "m">>

\* ------------------------------------------ the agent's requests by themselves
\* An agent whose state lock is poisoned: a thread panicked while it held
\* the MutexGuard, and every later lock() returns Err.
PoisonedAgent(passphrase) == [IwdAgent_new(passphrase) EXCEPT !.poisoned = TRUE]

\* Any agent, its lock sound or poisoned, is published and registered; the
\* daemon sends it requests and notifications.
AgentInit ==
    /\ pc = "idle"
    /\ arg_path = ""
    /\ arg_secret = None
    /\ \E passphrase \in StringsUpTo(MaxSecretLen) :
          published \in {Some(IwdAgent_new(passphrase)), Some(PoisonedAgent(passphrase))}
    /\ guards = 1
    /\ calls = <<>>
    /\ out = NoOutcome
    /\ inflight = 0
    /\ replies = {}
    /\ prompts = 0
    /\ notified = NoNotification
    /\ mgrAgent = TRUE
    /\ AppInit
    /\ LockInit
    /\ ListIdle
    /\ HistInit

AgentNext ==
    \/ AgentRequest
    \/ AgentRelease
    \/ AgentCancel

SpecAgent == AgentInit /\ [][AgentNext]_vars

\* ------------------------------------------- the handlers called in any state
\* set_known_autoconnect called with either value whatever is selected.  The
\* window calls it from the checkbox only (click_autoconnect), which it
\* draws for a selected known network; the method itself asks for nothing.
call_set_known_autoconnect ==
    /\ ui_dispatches
    /\ initialized
    /\ \E enabled \in BOOLEAN : set_known_autoconnect(enabled)
    /\ UNCHANGED <<lockVars, listVars, histVars>>

\* Refreshes, selections, scan_networks and set_known_autoconnect.
HandlerNext ==
    \/ update_first
    \/ click_refresh
    \/ list_devices_returns
    \/ list_visible_networks_returns
    \/ list_known_networks_returns
    \/ select_device
    \/ select_tab
    \/ select_known_network
    \/ click_scan
    \/ Scan_returns
    \/ call_set_known_autoconnect
    \/ SetAutoConnect_returns
    \/ handler_returns

SpecHandlers == Init /\ [][HandlerNext]_vars

\* ------------------------------------------------ properties of the window
PathsIn(records) == {records[i].path : i \in DOMAIN records}

\* C21: when list_devices returns a list in which the adapter selected
\* before is missing, refresh_all leaves no adapter selected.
C21_VanishedSelectionCleared ==
    [][(/\ pc = "list_devices"
        /\ pc' = "list_visible_networks"
        /\ selected_device_path.some
        /\ selected_device_path.val \notin PathsIn(devices'))
       => selected_device_path' = None]_vars

ControlActions == {"scan", "connect", "forget", "autoconnect"}

ListPcs == {"list_devices", "list_visible_networks", "list_known_networks"}

ControlFailureMessages ==
    {"Scan failed", "Connection failed", "Failed to forget",
     "Failed to update AutoConnect"}

\* The handler of a control action is over because its control call, or
\* the opening of the bus connection for it, failed.
ControlFailed ==
    /\ pc = "done"
    /\ action \in ControlActions
    /\ \/ status_line.msg \in ControlFailureMessages
       \/ status_line = ConnectionFailed /\ calls = <<>>

CallsOf(ops) == {i \in DOMAIN calls : calls[i].op \in ops}

\* C22: from the click to the failure of scan, connect, forget or
\* set_known_autoconnect (or of the opening of the bus connection) no step
\* changes the three lists, the selected adapter or the selected known
\* network with its details; the failing step puts the error into the
\* status line and starts no refresh.
C22_FailedControlLeavesStateUntouched ==
    [][/\ (action' \in ControlActions /\ pc' \notin ListPcs \cup {"done"})
           => UNCHANGED AppData
       /\ (pc # "done" /\ ControlFailed')
           => /\ UNCHANGED AppData
              /\ status_line'.err # ""
              /\ \A i \in DOMAIN calls' : calls'[i].op # "GetManagedObjects"]_vars

\* The Forget call for the selected known network failed: the network is
\* still selected and still listed.
C22_Witness ==
    /\ ControlFailed
    /\ action = "forget"
    /\ status_line.msg = "Failed to forget"
    /\ selected_known_path = Some(arg_path)
    /\ arg_path \in PathsIn(known_networks)
    /\ selected_known_details # <<>>

ControlOps ==
    {"Scan", "Connect", "Forget", "Set AutoConnect true", "Set AutoConnect false"}

BusOps == ControlOps \cup {"RegisterAgent", "UnregisterAgent", "GetManagedObjects"}

\* The last call of the handler's log that went over the bus.
LastBusCall ==
    LET sent == CallsOf(BusOps)
    IN  calls[CHOOSE i \in sent : \A j \in sent : j <= i]

\* The handler sends its control call and RegisterAgent at most once each.
AtMostOnce ==
    /\ Cardinality(CallsOf(ControlOps)) <= 1
    /\ Cardinality(CallsOf({"RegisterAgent"})) <= 1

\* The failed call of the handler, if one failed so far, is the last bus
\* call of its log. `except` are the calls allowed to follow it.
FailedCallIsLast(except) ==
    /\ out.register = "Err" => LastBusCall.op = "RegisterAgent"
    /\ out.connect = "Err" => LastBusCall.op \in {"Connect"} \cup except
    /\ (pc = "done" /\ status_line.msg = "Scan failed") => LastBusCall.op = "Scan"
    /\ (pc = "done" /\ status_line.msg = "Failed to forget")
           => LastBusCall.op = "Forget"
    /\ (pc = "done" /\ status_line.msg = "Failed to update AutoConnect")
           => LastBusCall.op \in {"Set AutoConnect true", "Set AutoConnect false"}

\* A failed connect_network is reported by the handler's next step.
FailureReported ==
    (pc = "done" /\ action = "connect" /\ out.result \notin {"none", "Ok"})
        => status_line = StatusErr("Connection failed", out.result)

ConnectPcs == {"connect_network", "RegisterAgent", "Connect", "UnregisterAgent", "returned"}

\* C24: a connect started from the window carries a secret only if the
\* passphrase field is not blank, the secret is the trimmed field, and a
\* blank field means a connect without secret; the agent published for a
\* connect never holds a blank secret.
C24_NoBlankSecretFromWindow ==
    /\ arg_secret.some =>
           /\ ~Blank(arg_secret.val)
           /\ arg_secret.val = trim(connect_passphrase)
    /\ (pc \in ConnectPcs /\ Blank(connect_passphrase)) => arg_secret = None
    /\ published.some =>
           /\ ~Blank(published.val.passphrase)
           /\ published.val.passphrase = trim(published.val.passphrase)

\* The field held " a"; the agent published for the Connect call holds "a".
C24_Witness ==
    /\ pc = "Connect"
    /\ action = "connect"
    /\ connect_passphrase = <<" ", "a">>
    /\ arg_secret = Some(<<"a">>)
    /\ published = Some(IwdAgent_new(<<"a">>))

\* What connect_network did at the agent's path, in the order it did it.
IsGuardCall(c) == c.path = AGENT_OBJECT_PATH
GuardCalls == [i \in DOMAIN SelectSeq(calls, IsGuardCall) |->
                  SelectSeq(calls, IsGuardCall)[i].op]

\* C25: the guard removes what is published at the agent's path, publishes
\* its agent, and only then calls RegisterAgent; its teardown calls
\* UnregisterAgent and only then removes the object.  While RegisterAgent
\* is in flight the object published is the agent of this call, and while
\* UnregisterAgent is in flight the object is still published.
C25_GuardOrdering ==
    /\ IsPrefix(GuardCalls,
                <<"remove", "at", "RegisterAgent", "UnregisterAgent", "remove">>)
    /\ pc = "RegisterAgent" => published = Some(IwdAgent_new(arg_secret.val))
    /\ pc = "UnregisterAgent" => published.some

\* A call with a secret went through construction and teardown.
C25_Witness ==
    /\ pc = "returned"
    /\ arg_secret.some
    /\ out.unregister = "Ok"
    /\ ~published.some
    /\ GuardCalls = <<"remove", "at", "RegisterAgent", "UnregisterAgent", "remove">>

\* C26: an agent whose lock is poisoned answers each of the four credential
\* requests with the Failed error "agent lock poisoned": no reply is
\* Canceled and no reply carries a secret.
C26_PoisonedLockFails ==
    (published.some /\ published.val.poisoned) =>
        \A e \in replies :
            /\ e.reply.kind = "Failed"
            /\ e.reply.msg = "agent lock poisoned"
            /\ e.reply.secret = <<>>
            /\ ~e.reply.dual

\* A poisoned agent that holds the secret "a" has answered all four
\* requests.
C26_Witness ==
    /\ published = Some(PoisonedAgent(<<"a">>))
    /\ {e.reply.req : e \in replies} = Requests
    /\ \A e \in replies : e.reply.kind = "Failed"

ListFailureMessages ==
    {"Failed to list devices", "Failed to load visible networks",
     "Failed to load saved networks"}

\* refresh_all is over because one of its three list calls failed.
RefreshFailed == pc = "done" /\ status_line.msg \in ListFailureMessages

\* C28: when a list call of refresh_all failed, the three lists and the
\* selections are what they were when refresh_all was entered: none of its
\* steps has changed any of them.
C28_RefreshAllOrNothing ==
    RefreshFailed => ~refresh_replaced

\* C29: the selected adapter, if there is one, is an adapter of the device
\* list shown; no adapter is selected only while that list is empty.
C29_SelectedAdapterIsListed ==
    /\ selected_device_path.some => selected_device_path.val \in PathsIn(devices)
    /\ ~selected_device_path.some => devices = <<>>

\* A refresh over two adapters has ended and left the second one, which the
\* user had chosen, selected.
C29_Witness ==
    /\ pc = "done"
    /\ status_line.msg = "Loaded"
    /\ Len(devices) = 2
    /\ devices[1].path = Dev0Path
    /\ selected_device_path = Some(Dev1Path)

\* The Forget call of the running handler succeeded.
ForgetSucceeded ==
    /\ action = "forget"
    /\ pc \in ListPcs \cup {"done"}
    /\ CallsOf({"Forget"}) # {}
    /\ status_line.msg # "Failed to forget"

ConnectTargetMatches ==
    \E i \in DOMAIN visible_networks :
        /\ visible_networks[i].path = arg_path
        /\ visible_networks[i].ssid = trim(connect_ssid)
        /\ ~is_empty(trim(connect_ssid))
        /\ selected_device_path.some =>
               visible_networks[i].device_path = selected_device_path

\* connect_to_selected_network returned at one of its two checks.
ConnectRefused ==
    /\ pc = "done"
    /\ action = "connect"
    /\ status_line.msg \in {"SSID cannot be empty",
                            "Selected SSID not found in visible list"}

\* C31: while connect_network runs for a connect action, and so for every
\* Connect call of the action, the network it was given is an entry of the
\* visible list whose SSID is the trimmed SSID field and, with an adapter
\* selected, whose owner is that adapter (an entry without owner is then
\* no target).  A connect action that finds the field blank or no such
\* entry opens no connection, makes no call and changes only the status
\* line (the row's button has put the row's SSID into the field before).
C31_ConnectOnlyOnMatchingNetwork ==
    [][/\ (action' = "connect" /\ pc' \in ConnectPcs)
           => /\ ConnectTargetMatches'
              /\ \A i \in DOMAIN calls' :
                     calls'[i].op = "Connect" => calls'[i].path = arg_path'
       /\ (pc = "idle" /\ ConnectRefused')
           => /\ calls' = <<>>
              /\ UNCHANGED <<arg_path, arg_secret, published, guards, out, inflight,
                             agentVars, daemonVars, initialized, active_tab,
                             connect_passphrase, AppData>>]_vars

\* The field holds " h", adapter 0/3 is selected, and the Connect call is
\* out for the network "h" of that adapter.
C31_Witness ==
    /\ pc = "Connect"
    /\ action = "connect"
    /\ connect_ssid = <<" ", "h">>
    /\ selected_device_path = Some(Dev0Path)
    /\ arg_path = NetH0.path
    /\ CallsOf({"Connect"}) # {}

\* The step starts scan_networks with no adapter selected, or
\* set_known_autoconnect with no known network selected.
PreconditionMissing ==
    /\ pc = "idle"
    /\ \/ action' = "scan" /\ ~selected_device_path.some
       \/ action' = "autoconnect" /\ ~selected_known_path.some

\* C32: scan_networks with no adapter selected and set_known_autoconnect
\* with no known network selected return at once: no connection is opened,
\* no call is made, and nothing but the status line changes, which then
\* asks for the selection.
C32_GuardsMakeNoBusTraffic ==
    [][PreconditionMissing =>
          /\ pc' = "done"
          /\ calls' = <<>>
          /\ status_line' = IF action' = "scan"
                            THEN StatusMsg("Select a device first")
                            ELSE StatusMsg("Select a saved network first")
          /\ UNCHANGED <<arg_path, arg_secret, published, guards, out, inflight,
                         agentVars, daemonVars, initialized, active_tab,
                         connect_ssid, connect_passphrase, AppData>>]_vars

\* set_known_autoconnect found no known network selected and returned.
C32_Witness ==
    /\ pc = "done"
    /\ action = "autoconnect"
    /\ ~selected_known_path.some
    /\ status_line = StatusMsg("Select a saved network first")
    /\ calls = <<>>
    /\ inflight = 0

\* The control call of the running handler succeeded.
ControlSucceeded ==
    /\ action \in ControlActions
    /\ pc \in ListPcs \cup {"done"}
    /\ CallsOf(ControlOps) # {}
    /\ status_line.msg \notin ControlFailureMessages

\* The list_devices reads of the handler's log: one per refresh_all that
\* reached the bus.
RefreshStarts == {i \in DOMAIN calls : calls[i] = Op("GetManagedObjects", "list_devices")}

\* Exactly one refresh_all follows a successful control call: it is in its
\* reads, or over, and it read the adapters once unless it could not open
\* its connection.  Every read comes after the control call and the
\* guard's calls.
OneRefreshAfterSuccess ==
    /\ Cardinality(RefreshStarts) <= 1
    /\ ControlSucceeded =>
           \/ Cardinality(RefreshStarts) = 1
           \/ pc = "done" /\ status_line = ConnectionFailed
    /\ \A i \in CallsOf({"GetManagedObjects"}) :
           \A j \in CallsOf(ControlOps \cup {"RegisterAgent", "UnregisterAgent",
                                             "remove", "at"}) : j < i

\* C33 as stated: one refresh follows a successful control call, and while
\* the refresh reads the catalog the agent manager holds no agent of this
\* client.
C33_NoReadWhileAgentRegistered ==
    /\ OneRefreshAfterSuccess
    /\ pc \in ListPcs => (guards = 0 /\ ~published.some /\ ~mgrAgent)

\* C33: one refresh follows a successful control call, and it reads the
\* catalog only after the guard is gone: no guard is alive and no agent
\* object is published during the reads, and the agent manager still holds
\* the agent's path only if the guard's UnregisterAgent call failed.
C33_RefreshAfterTeardown ==
    /\ OneRefreshAfterSuccess
    /\ pc \in ListPcs =>
           /\ guards = 0
           /\ ~published.some
           /\ mgrAgent => out.unregister = "Err"

\* The refresh after a connect with a secret reads the catalog; the guard
\* has unregistered and removed the agent.
C33_Witness ==
    /\ pc \in ListPcs
    /\ action = "connect"
    /\ arg_secret.some
    /\ out.result = "Ok"
    /\ out.unregister = "Ok"
    /\ ~mgrAgent
    /\ ~published.some
    /\ Cardinality(RefreshStarts) = 1

\* The catalog reads of the handler's log, by the list operation that made
\* them.
IsCatalogRead(c) == c.op = "GetManagedObjects"
CatalogReads == [i \in DOMAIN SelectSeq(calls, IsCatalogRead) |->
                    SelectSeq(calls, IsCatalogRead)[i].path]

\* refresh_all has read all three lists.
RefreshSucceeded == pc = "done" /\ status_line.msg = "Loaded"

\* The reads of a refresh come in the order adapters, visible networks,
\* known networks, and a refresh that succeeded made all three.
ReadsInOrder ==
    /\ IsPrefix(CatalogReads,
                <<"list_devices", "list_visible_networks", "list_known_networks">>)
    /\ RefreshSucceeded => Len(CatalogReads) = 3

\* C34 as stated: the catalog is read in the order adapters, visible
\* networks, known networks, and after a successful refresh every visible
\* network has no owner or the selected adapter as its owner.
C34_VisibleOwnedBySelection ==
    /\ ReadsInOrder
    /\ RefreshSucceeded =>
           \A i \in DOMAIN visible_networks :
               \/ visible_networks[i].device_path = None
               \/ visible_networks[i].device_path = selected_device_path

\* C34: the catalog is read in the order adapters, visible networks, known
\* networks; after a successful refresh that left an adapter selected
\* every visible network has no owner or that adapter as its owner.  A
\* refresh that found no adapter leaves none selected and its visible list
\* unfiltered.
C34_VisibleFilteredBySelection ==
    /\ ReadsInOrder
    /\ (RefreshSucceeded /\ selected_device_path.some) =>
           \A i \in DOMAIN visible_networks :
               \/ visible_networks[i].device_path = None
               \/ visible_networks[i].device_path = selected_device_path
    /\ (RefreshSucceeded /\ ~selected_device_path.some) => devices = <<>>

\* A refresh over two adapters and their networks has ended: adapter 0/3
\* is selected and the list holds its network only.
C34_Witness ==
    /\ RefreshSucceeded
    /\ Len(devices) = 2
    /\ selected_device_path = Some(Dev0Path)
    /\ Len(visible_networks) = 1
    /\ visible_networks[1].path = NetH0.path
    /\ visible_networks[1].device_path = Some(Dev0Path)

\* C35: update() runs refresh_all by itself on the first frame only.  A
\* step of a window that has not refreshed yet is that refresh, and it sets
\* `initialized`; `initialized` is never reset, however the refresh ends;
\* and once it is set update() starts no refresh by itself again.
C35_AutomaticRefreshOnce ==
    [][/\ ~initialized =>
             /\ initialized'
             /\ action' = "refresh"
             /\ pc' \in {"list_devices", "done"}
       /\ initialized => initialized'
       /\ initialized' => ~(ENABLED update_first)']_vars

\* The first refresh failed at its adapter read and the handler is over:
\* the window shows nothing, and update() does not refresh again.
C35_Witness ==
    /\ initialized
    /\ pc = "idle"
    /\ status_line.msg = "Failed to list devices"
    /\ devices = <<>>
    /\ visible_networks = <<>>
    /\ known_networks = <<>>
    /\ ~ENABLED update_first

====
